-------------------------- MODULE BOBTTokenProofs --------------------------
(***************************************************************************)
(* The abstract ledger accounts for every unit; the token contract refines  *)
(* it; and what the contract says of frozen, paused and allowed funds and of *)
(* its records holds: for any set of accounts, any inputs and any cap.      *)
(* First come the facts about sums that these proofs, and those of the      *)
(* other contracts, cite.                                                   *)
(***************************************************************************)
EXTENDS BOBTToken, FiniteSetTheorems, TLAPS

-----------------------------------------------------------------------------
(* Sums *)

\* The tokens of the points outside a set: what an update of f leaves alone.
UnitsOutside(f, X) == UNION {{b} \X (1..f[b]) : b \in (DOMAIN f) \ X}

(* One point contributes as many tokens as the value of f there. *)
LEMMA UnitsAtPoint ==
    ASSUME NEW a, NEW k \in Nat
    PROVE  /\ IsFiniteSet({a} \X (1..k))
           /\ Cardinality({a} \X (1..k)) = k
<1>1. IsFiniteSet({a}) /\ Cardinality({a}) = 1
  BY FS_Singleton
<1>2. IsFiniteSet(1..k) /\ Cardinality(1..k) = k
  BY FS_Interval
<1>3. /\ IsFiniteSet({a} \X (1..k))
      /\ Cardinality({a} \X (1..k)) = Cardinality({a}) * Cardinality(1..k)
  BY <1>1, <1>2, FS_Product, Zenon
<1>4. Cardinality({a} \X (1..k)) = 1 * k
  BY <1>1, <1>2, <1>3
<1> QED
  BY <1>3, <1>4

(* Only finitely many tokens lie outside X. *)
LEMMA UnitsOutsideFinite ==
    ASSUME NEW A, IsFiniteSet(A), NEW f \in [A -> Nat], NEW X
    PROVE  IsFiniteSet(UnitsOutside(f, X))
<1> DEFINE pieces == {{b} \X (1..f[b]) : b \in A \ X}
<1>1. IsFiniteSet(A \ X)
  BY FS_Difference
<1> DEFINE piece == [b \in A \ X |-> {b} \X (1..f[b])]
<1>2. IsFiniteSet(pieces)
  <2>1. piece \in Surjection(A \ X, pieces)
    BY DEF Surjection
  <2> QED
    BY <1>1, <2>1, FS_Surjection, Zenon DEF ExistsSurjection
<1>3. ASSUME NEW T \in pieces
      PROVE  IsFiniteSet(T)
  <2>1. PICK b \in A \ X : T = {b} \X (1..f[b])
    OBVIOUS
  <2>2. f[b] \in Nat
    OBVIOUS
  <2> QED
    BY <2>1, <2>2, UnitsAtPoint, Zenon
<1>4. UnitsOutside(f, X) = UNION pieces
  BY DEF UnitsOutside
<1> QED
  BY <1>2, <1>3, <1>4, FS_UNION

(* A point's tokens and the tokens outside it make up the whole. *)
LEMMA TotalSplit ==
    ASSUME NEW A, IsFiniteSet(A), NEW f \in [A -> Nat], NEW a \in A
    PROVE  /\ Total(f) = Cardinality(UnitsOutside(f, {a})) + f[a]
           /\ Cardinality(UnitsOutside(f, {a})) \in Nat
<1> DEFINE rest == UnitsOutside(f, {a})
           here == {a} \X (1..f[a])
<1>1. IsFiniteSet(rest) /\ Cardinality(rest) \in Nat
  BY UnitsOutsideFinite, FS_CardinalityType
<1>2. IsFiniteSet(here) /\ Cardinality(here) = f[a]
  BY UnitsAtPoint
<1>3. Units(f) = rest \cup here
  BY DEF Units, UnitsOutside
<1>4. rest \cap here = {}
  BY DEF UnitsOutside
<1>5. /\ IsFiniteSet(rest \cup here)
      /\ Cardinality(rest \cup here) =
           Cardinality(rest) + Cardinality(here) - Cardinality(rest \cap here)
  BY <1>1, <1>2, FS_Union, Zenon
<1>6. Cardinality(rest \cap here) = 0
  BY <1>4, FS_EmptySet, Zenon
<1> QED
  <2> HIDE DEF rest, here
  <2>1. Cardinality(rest \cup here) = Cardinality(rest) + f[a]
    BY <1>1, <1>2, <1>5, <1>6
  <2>2. Total(f) = Cardinality(rest) + f[a]
    BY <1>3, <2>1 DEF Total
  <2> QED
    BY <1>1, <2>2 DEF rest

(* A total is a natural number. *)
LEMMA TotalType ==
    ASSUME NEW A, IsFiniteSet(A), NEW f \in [A -> Nat]
    PROVE  Total(f) \in Nat
<1>1. Units(f) = UnitsOutside(f, {})
  BY DEF Units, UnitsOutside
<1> QED
  BY <1>1, UnitsOutsideFinite, FS_CardinalityType DEF Total

(* No value exceeds the total. *)
LEMMA TotalBound ==
    ASSUME NEW A, IsFiniteSet(A), NEW f \in [A -> Nat], NEW a \in A
    PROVE  f[a] <= Total(f)
<1> DEFINE others == Cardinality(UnitsOutside(f, {a}))
<1>1. Total(f) = others + f[a] /\ others \in Nat
  BY TotalSplit
<1> HIDE DEF others
<1> QED
  BY <1>1

(* The function that is 0 everywhere has total 0. *)
LEMMA TotalZero ==
    ASSUME NEW A
    PROVE  Total([a \in A |-> 0]) = 0
<1>1. Units([a \in A |-> 0]) = {}
  BY DEF Units
<1> QED
  BY <1>1, FS_EmptySet DEF Total

(* If g differs from f at one point only, so do their totals, by the same *)
(* difference.                                                            *)
LEMMA TotalUpdate ==
    ASSUME NEW A, IsFiniteSet(A), NEW f \in [A -> Nat], NEW g \in [A -> Nat],
           NEW a \in A, \A c \in A \ {a} : g[c] = f[c]
    PROVE  Total(g) = Total(f) - f[a] + g[a]
<1> DEFINE others == Cardinality(UnitsOutside(f, {a}))
<1>1. UnitsOutside(g, {a}) = UnitsOutside(f, {a})
  BY DEF UnitsOutside
<1>2. Total(g) = others + g[a]
  BY <1>1, TotalSplit
<1>3. Total(f) = others + f[a] /\ others \in Nat
  BY TotalSplit
<1> HIDE DEF others
<1> QED
  BY <1>2, <1>3

(* What one point gives up and another receives leaves the total alone. *)
LEMMA TotalMove ==
    ASSUME NEW A, IsFiniteSet(A), NEW f \in [A -> Nat], NEW g \in [A -> Nat],
           NEW a \in A, NEW b \in A, a # b,
           g[a] + g[b] = f[a] + f[b],
           \A c \in A \ {a, b} : g[c] = f[c]
    PROVE  Total(g) = Total(f)
<1> DEFINE h == [c \in A |-> IF c = a THEN g[a] ELSE f[c]]
<1>1. /\ h \in [A -> Nat] /\ h[a] = g[a] /\ h[b] = f[b]
      /\ \A c \in A \ {a} : h[c] = f[c]
      /\ \A c \in A \ {b} : g[c] = h[c]
  OBVIOUS
<1> HIDE DEF h
<1>2. Total(h) = Total(f) - f[a] + h[a]
  BY <1>1, TotalUpdate
<1>3. Total(g) = Total(h) - h[b] + g[b]
  BY <1>1, TotalUpdate
<1>4. Total(f) \in Nat
  BY TotalType
<1> QED
  BY <1>1, <1>2, <1>3, <1>4

(* A point added to the domain adds its value to the total. *)
LEMMA TotalGrows ==
    ASSUME NEW S, IsFiniteSet(S), NEW f \in [S -> Nat], NEW a, a \notin S,
           NEW g \in [S \cup {a} -> Nat], \A c \in S : g[c] = f[c]
    PROVE  Total(g) = Total(f) + g[a]
<1>1. IsFiniteSet(S \cup {a})
  BY FS_AddElement
<1>2. UnitsOutside(g, {a}) = Units(f)
  BY DEF UnitsOutside, Units
<1> QED
  BY <1>1, <1>2, TotalSplit DEF Total
-----------------------------------------------------------------------------
(* The ledger *)

\* SupplyBacked alone is not inductive: a sum needs natural summands.
LedgerInv == /\ balances \in [Address -> Nat]
             /\ total_supply \in Nat
             /\ SupplyBacked
             /\ SupplyCapped

(* The empty ledger is accounted for. *)
LEMMA LedgerInvInit == LedgerInit => LedgerInv
  BY LedgerAssumption, AccountsAssumption, TotalZero DEF LedgerInit, LedgerInv, SupplyBacked, SupplyCapped

(* Issuing, retiring and moving units keep the ledger accounted for. *)
LEMMA LedgerInvStep == LedgerInv /\ [LedgerNext]_ledgerVars => LedgerInv'
<1> SUFFICES ASSUME LedgerInv, [LedgerNext]_ledgerVars
             PROVE  LedgerInv'
  OBVIOUS
<1> USE LedgerAssumption, AccountsAssumption DEF LedgerInv, SupplyBacked, SupplyCapped
<1>1. ASSUME NEW n \in 1..MAX_SUPPLY, NEW a \in Address, Issue(a, n)
      PROVE  LedgerInv'
  <2>1. /\ balances' \in [Address -> Nat] /\ balances'[a] = balances[a] + n
        /\ \A c \in Address \ {a} : balances'[c] = balances[c]
    BY <1>1 DEF Issue
  <2>2. Total(balances') = Total(balances) - balances[a] + balances'[a]
    BY <2>1, TotalUpdate
  <2> QED
    BY <1>1, <2>1, <2>2 DEF Issue
<1>2. ASSUME NEW n \in 1..MAX_SUPPLY, NEW a \in Address, Retire(a, n)
      PROVE  LedgerInv'
  <2>1. /\ balances' \in [Address -> Nat] /\ balances'[a] = balances[a] - n
        /\ \A c \in Address \ {a} : balances'[c] = balances[c]
    BY <1>2 DEF Retire
  <2>2. Total(balances') = Total(balances) - balances[a] + balances'[a]
    BY <2>1, TotalUpdate
  <2>3. balances[a] <= Total(balances)
    BY TotalBound
  <2> QED
    BY <1>2, <2>1, <2>2, <2>3 DEF Retire
<1>3. ASSUME NEW n \in 1..MAX_SUPPLY, NEW a \in Address, NEW b \in Address,
             Move(a, b, n)
      PROVE  LedgerInv'
  <2>1. /\ balances' \in [Address -> Nat] /\ a # b
        /\ balances'[a] + balances'[b] = balances[a] + balances[b]
        /\ \A c \in Address \ {a, b} : balances'[c] = balances[c]
    BY <1>3 DEF Move
  <2>2. Total(balances') = Total(balances)
    BY <2>1, TotalMove
  <2> QED
    BY <1>3, <2>1, <2>2 DEF Move
<1>4. CASE UNCHANGED ledgerVars
  BY <1>4 DEF ledgerVars
<1> QED
  BY <1>1, <1>2, <1>3, <1>4 DEF LedgerNext

(* In every behaviour of the ledger the published supply is what the holders *)
(* own together, and it is under the cap.                                    *)
THEOREM LedgerConserves == LedgerSpec => [](SupplyBacked /\ SupplyCapped)
<1>1. LedgerInv => SupplyBacked /\ SupplyCapped
  BY DEF LedgerInv
<1> QED
  BY <1>1, LedgerInvInit, LedgerInvStep, PTL DEF LedgerSpec
-----------------------------------------------------------------------------
(* The contract *)

\* A burn subtracts from the supply: that this stays natural, and that the
\* amount is one the ledger can retire, follows from the accounting only.
TokenInv == TokenTypeOK /\ LedgerInv

\* What another contract asks for in its own name: the callers of TokenNext are
\* accounts, and the treasury mints, burns and pauses what its proposals say.
FromContract ==
    \E c \in Address :
        \/ Pause(c)
        \/ \E a \in Address, n \in Int, id \in RequestId :
              AdminMint(c, a, n, id) \/ AdminBurn(c, a, n, id)

\* A step of the token, alone or beside other contracts.
TokenStep == [TokenNext]_tokenVars \/ FromContract

(* The amounts the contract lets through are ones the ledger moves. *)
LEMMA AmountInRange ==
    ASSUME TokenInv, NEW a \in Address, NEW n \in Int, ValidAmount(n),
           n <= balances[a] \/ ValidMintSupply(n)
    PROVE  n \in 1..MAX_SUPPLY
<1>1. balances[a] <= total_supply
  BY LedgerAssumption, AccountsAssumption, TotalBound DEF TokenInv, LedgerInv, SupplyBacked
<1> QED
  BY <1>1, LedgerAssumption, AccountsAssumption
     DEF TokenInv, LedgerInv, SupplyCapped, ValidAmount, ValidMintSupply

LEMMA MintRefines ==
    ASSUME TokenInv, NEW a \in Address, NEW n \in Int, MintInternal(a, n)
    PROVE  LedgerNext
<1>1. n \in 1..MAX_SUPPLY
  BY AmountInRange DEF MintInternal
<1>2. Issue(a, n)
  BY DEF MintInternal, Issue, ValidMintSupply
<1> QED
  BY <1>1, <1>2 DEF LedgerNext

LEMMA BurnRefines ==
    ASSUME TokenInv, NEW a \in Address, NEW n \in Int, BurnInternal(a, n)
    PROVE  LedgerNext
<1>1. n \in Int /\ n <= balances[a]
  BY DEF BurnInternal, TokenInv, TokenTypeOK
<1>2. n \in 1..MAX_SUPPLY
  BY <1>1, AmountInRange DEF BurnInternal
<1>3. Retire(a, n)
  BY <1>1 DEF BurnInternal, Retire
<1> QED
  BY <1>2, <1>3 DEF LedgerNext

LEMMA TransferRefines ==
    ASSUME TokenInv, NEW a \in Address, NEW b \in Address, NEW n \in Int,
           TransferInternal(a, b, n)
    PROVE  LedgerNext
<1>1. n \in Int /\ n <= balances[a]
  BY DEF TransferInternal, TokenInv, TokenTypeOK
<1>2. n \in 1..MAX_SUPPLY
  BY <1>1, AmountInRange DEF TransferInternal
<1>3. Move(a, b, n)
  BY <1>1 DEF TransferInternal, Move
<1> QED
  BY <1>2, <1>3 DEF LedgerNext

LEMMA ClawbackRefines ==
    ASSUME TokenInv, NEW o \in Address, NEW a \in Address, DestroyFrozenFunds(o, a)
    PROVE  LedgerNext
<1>1. balances[a] <= total_supply
  BY LedgerAssumption, AccountsAssumption, TotalBound DEF TokenInv, LedgerInv, SupplyBacked
<1>2. balances[a] \in 1..MAX_SUPPLY
  BY <1>1, LedgerAssumption, AccountsAssumption
     DEF TokenInv, LedgerInv, SupplyCapped, DestroyFrozenFunds
<1>3. balances[a] \in Nat /\ balances[a] - balances[a] = 0
  BY DEF TokenInv, LedgerInv
<1>4. Retire(a, balances[a])
  <2>1. [balances EXCEPT ![a] = balances[a] - balances[a]] = [balances EXCEPT ![a] = 0]
    BY <1>3, Zenon
  <2>2. balances[a] <= balances[a]
    BY <1>3
  <2> QED
    BY <2>1, <2>2, Zenon DEF DestroyFrozenFunds, Retire
<1> QED
  BY <1>2, <1>4 DEF LedgerNext

(* Every step of the contract is a step of the ledger or leaves it alone. *)
LEMMA StepRefines == TokenInv /\ TokenStep => [LedgerNext]_ledgerVars
<1> SUFFICES ASSUME TokenInv, TokenStep
             PROVE  [LedgerNext]_ledgerVars
  OBVIOUS
<1> USE DEF funds, ledgerVars
<1>1. ASSUME NEW c \in Caller, MoveFunds(c) PROVE [LedgerNext]_ledgerVars
  <2> PICK a \in Party, n \in Amount :
        \/ Transfer(c, a, n)
        \/ \E b \in Party : TransferFrom(c, a, b, n)
        \/ \E x \in Expiration : Approve(c, a, n, x)
        \/ Burn(c, n)
        \/ BurnFrom(c, a, n)
        \/ \E id \in RequestId : AdminMint(c, a, n, id) \/ AdminBurn(c, a, n, id)
    BY <1>1, Zenon DEF MoveFunds
  <2>0. c \in Address /\ Party \subseteq Address /\ n \in Int
    BY TokenAssumption
  <2>1. CASE Transfer(c, a, n)
    BY <2>0, <2>1, TransferRefines DEF Transfer
  <2>2. ASSUME NEW b \in Party, TransferFrom(c, a, b, n) PROVE LedgerNext
    BY <2>0, <2>2, TransferRefines DEF TransferFrom
  <2>3. ASSUME NEW x \in Expiration, Approve(c, a, n, x)
        PROVE  UNCHANGED ledgerVars
    BY <2>3 DEF Approve
  <2>4. CASE Burn(c, n)
    BY <2>0, <2>4, BurnRefines DEF Burn
  <2>5. CASE BurnFrom(c, a, n)
    BY <2>0, <2>5, BurnRefines DEF BurnFrom
  <2>6. ASSUME NEW id \in RequestId, AdminMint(c, a, n, id) PROVE LedgerNext
    BY <2>0, <2>6, MintRefines DEF AdminMint, RecordedMint
  <2>7. ASSUME NEW id \in RequestId, AdminBurn(c, a, n, id) PROVE LedgerNext
    BY <2>0, <2>7, BurnRefines DEF AdminBurn
  <2> QED
    BY <2>1, <2>2, <2>3, <2>4, <2>5, <2>6, <2>7
<1>2. ASSUME NEW c \in Caller, Administer(c) PROVE [LedgerNext]_ledgerVars
  <2>0. c \in Address /\ Party \subseteq Address
    BY TokenAssumption
  <2>1. ASSUME NEW a \in Party, DestroyFrozenFunds(c, a)
        PROVE  LedgerNext
    BY <2>0, <2>1, ClawbackRefines
  <2> QED
    BY <1>2, <2>1 DEF Administer, Pause, Unpause, Freeze, Unfreeze,
       TransferOwnership, GrantRole, RevokeRole
<1>3. CASE Unsigned
  BY <1>3, MintRefines, TokenAssumption DEF Unsigned, Initialize, LegacyMint, RecordedMint
<1>4. CASE TokenCloseLedger
  BY <1>4 DEF TokenCloseLedger, CloseLedger
<1>5. CASE UNCHANGED tokenVars
  BY <1>5 DEF tokenVars
<1>6. CASE FromContract
  <2>1. ASSUME NEW c \in Address, Pause(c) PROVE UNCHANGED ledgerVars
    BY <2>1 DEF Pause
  <2>2. ASSUME NEW c \in Address, NEW a \in Address, NEW n \in Int, NEW id \in RequestId,
               AdminMint(c, a, n, id) \/ AdminBurn(c, a, n, id)
        PROVE  LedgerNext
    BY <2>2, MintRefines, BurnRefines DEF AdminMint, RecordedMint, AdminBurn
  <2> QED
    BY <1>6, <2>1, <2>2 DEF FromContract
<1> QED
  BY <1>1, <1>2, <1>3, <1>4, <1>5, <1>6 DEF TokenStep, TokenNext, TokenCall

(* The part of the type invariant that is not about funds. *)
ControlOK ==
    /\ initialized \in BOOLEAN
    /\ owner \in Address \cup {NoOwner}
    /\ paused \in BOOLEAN
    /\ roles \subseteq Role \X Address
    /\ frozen \subseteq Address
    /\ sequence \in Nat

AllowancesOK ==
    allowances \in [Address \X Address -> [amount : Nat, expiration_ledger : Nat]]

RequestsOK == mint_requests \subseteq MintRequest /\ burn_requests \subseteq BurnRequest

LEMMA ControlStep == TokenInv /\ TokenStep => ControlOK'
<1> SUFFICES ASSUME TokenInv, TokenStep
             PROVE  ControlOK'
  OBVIOUS
<1> USE TokenAssumption DEF TokenInv, TokenTypeOK, ControlOK, control
<1>0. ASSUME UNCHANGED <<initialized, owner, roles, paused, frozen, sequence>>
      PROVE  ControlOK'
  BY <1>0
<1>1. ASSUME NEW c \in Caller, MoveFunds(c) PROVE ControlOK'
  <2> PICK a \in Party, n \in Amount :
        \/ Transfer(c, a, n)
        \/ \E b \in Party : TransferFrom(c, a, b, n)
        \/ \E x \in Expiration : Approve(c, a, n, x)
        \/ Burn(c, n)
        \/ BurnFrom(c, a, n)
        \/ \E id \in RequestId : AdminMint(c, a, n, id) \/ AdminBurn(c, a, n, id)
    BY <1>1, Zenon DEF MoveFunds
  <2>1. CASE Transfer(c, a, n)
    BY <1>0, <2>1 DEF Transfer
  <2>2. ASSUME NEW b \in Party, TransferFrom(c, a, b, n)
        PROVE  UNCHANGED <<initialized, owner, roles, paused, frozen, sequence>>
    BY <2>2 DEF TransferFrom
  <2>3. ASSUME NEW x \in Expiration, Approve(c, a, n, x)
        PROVE  UNCHANGED <<initialized, owner, roles, paused, frozen, sequence>>
    BY <2>3 DEF Approve
  <2>4. CASE Burn(c, n) \/ BurnFrom(c, a, n)
    BY <1>0, <2>4 DEF Burn, BurnFrom
  <2>5. ASSUME NEW id \in RequestId, AdminMint(c, a, n, id)
        PROVE  UNCHANGED <<initialized, owner, roles, paused, frozen, sequence>>
    BY <2>5 DEF AdminMint, RecordedMint
  <2>6. ASSUME NEW id \in RequestId, AdminBurn(c, a, n, id)
        PROVE  UNCHANGED <<initialized, owner, roles, paused, frozen, sequence>>
    BY <2>6 DEF AdminBurn
  <2> QED
    BY <1>0, <2>1, <2>2, <2>3, <2>4, <2>5, <2>6
<1>2. ASSUME NEW c \in Caller, Administer(c) PROVE ControlOK'
  <2>0. c \in Address
    OBVIOUS
  <2>1. CASE Pause(c) \/ Unpause(c)
    BY <2>1, Zenon DEF Pause, Unpause
  <2>2. ASSUME NEW a \in Party,
               Freeze(c, a) \/ Unfreeze(c, a) \/ DestroyFrozenFunds(c, a)
        PROVE  ControlOK'
    BY <2>2 DEF Freeze, Unfreeze, DestroyFrozenFunds
  <2>3. ASSUME NEW a \in Party, TransferOwnership(c, a)
        PROVE  ControlOK'
    BY <2>0, <2>3 DEF TransferOwnership, Role
  <2>4. ASSUME NEW g \in RoleGrant,
               GrantRole(c, g[1], g[2]) \/ RevokeRole(c, g[1], g[2])
        PROVE  ControlOK'
    <3>1. <<g[1], g[2]>> \in Role \X Address
      OBVIOUS
    <3> QED
      BY <2>4, <3>1 DEF GrantRole, RevokeRole
  <2> QED
    BY <1>2, <2>1, <2>2, <2>3, <2>4 DEF Administer
<1>3. CASE Unsigned
  <2>1. ASSUME NEW a \in Party, Initialize(a)
        PROVE  ControlOK'
    <3>1. /\ initialized' = TRUE /\ owner' = a /\ paused' = FALSE
          /\ roles' = roles \cup {<<"owner", a>>} /\ UNCHANGED <<frozen, sequence>>
      BY <2>1 DEF Initialize
    <3>2. roles' \subseteq Role \X Address
      BY <3>1 DEF Role
    <3> QED
      BY <3>1, <3>2, Zenon
  <2>2. ASSUME NEW a \in Party, NEW n \in Amount, NEW id \in RequestId,
               LegacyMint(a, n, id)
        PROVE  UNCHANGED <<initialized, owner, roles, paused, frozen, sequence>>
    BY <2>2 DEF LegacyMint, RecordedMint
  <2> QED
    BY <1>0, <1>3, <2>1, <2>2 DEF Unsigned
<1>4. CASE TokenCloseLedger
  BY <1>4 DEF TokenCloseLedger, CloseLedger
<1>5. CASE UNCHANGED tokenVars
  BY <1>5 DEF tokenVars
<1>6. CASE FromContract
  <2>1. ASSUME NEW c \in Address, Pause(c) PROVE ControlOK'
    BY <2>1, Zenon DEF Pause
  <2>2. ASSUME NEW c \in Address, NEW a \in Address, NEW n \in Int, NEW id \in RequestId,
               AdminMint(c, a, n, id) \/ AdminBurn(c, a, n, id)
        PROVE  UNCHANGED <<initialized, owner, roles, paused, frozen, sequence>>
    BY <2>2 DEF AdminMint, RecordedMint, AdminBurn
  <2> QED
    BY <1>0, <1>6, <2>1, <2>2 DEF FromContract
<1> QED
  BY <1>1, <1>2, <1>3, <1>4, <1>5, <1>6 DEF TokenStep, TokenNext, TokenCall

\* What a spender leaves of an allowance is still an allowance.
LEMMA SpendType ==
    ASSUME AllowancesOK, NEW from \in Address, NEW spender \in Address,
           NEW n \in Int, SpendAllowance(from, spender, n)
    PROVE  AllowancesOK'
<1> DEFINE p == <<from, spender>>
           data == allowances[p]
<1>1. data \in [amount : Nat, expiration_ledger : Nat]
  BY DEF AllowancesOK
<1>2. CASE data.amount - n > 0
  <2>1. data.amount - n \in Nat
    BY <1>1, <1>2
  <2>2. [data EXCEPT !.amount = data.amount - n]
          \in [amount : Nat, expiration_ledger : Nat]
    BY <1>1, <2>1
  <2>3. allowances' = [allowances EXCEPT ![p] =
                          [data EXCEPT !.amount = data.amount - n]]
    BY <1>2 DEF SpendAllowance
  <2> QED
    BY <2>2, <2>3 DEF AllowancesOK
<1>3. CASE ~(data.amount - n > 0)
  <2>1. allowances' = [allowances EXCEPT ![p] = NoAllowance]
    BY <1>3 DEF SpendAllowance
  <2> QED
    BY <2>1 DEF AllowancesOK, NoAllowance
<1> QED
  BY <1>2, <1>3

LEMMA AllowancesStep == TokenInv /\ TokenStep => AllowancesOK'
<1> SUFFICES ASSUME TokenInv, TokenStep
             PROVE  AllowancesOK'
  OBVIOUS
<1>0. AllowancesOK
  BY DEF TokenInv, TokenTypeOK, AllowancesOK
<1>1. ASSUME UNCHANGED allowances
      PROVE  AllowancesOK'
  BY <1>0, <1>1 DEF AllowancesOK
<1>2. ASSUME NEW c \in Caller, MoveFunds(c) PROVE AllowancesOK'
  <2> PICK a \in Party, n \in Amount :
        \/ Transfer(c, a, n)
        \/ \E b \in Party : TransferFrom(c, a, b, n)
        \/ \E x \in Expiration : Approve(c, a, n, x)
        \/ Burn(c, n)
        \/ BurnFrom(c, a, n)
        \/ \E id \in RequestId : AdminMint(c, a, n, id) \/ AdminBurn(c, a, n, id)
    BY <1>2, Zenon DEF MoveFunds
  <2>0. n \in Int /\ c \in Address /\ Party \subseteq Address
    BY TokenAssumption
  <2>1. ASSUME NEW b \in Party, TransferFrom(c, a, b, n) PROVE AllowancesOK'
    BY <1>0, <2>0, <2>1, SpendType DEF TransferFrom
  <2>2. ASSUME BurnFrom(c, a, n) PROVE AllowancesOK'
    BY <1>0, <2>0, <2>2, SpendType DEF BurnFrom
  <2>3. ASSUME NEW x \in Expiration, Approve(c, a, n, x) PROVE AllowancesOK'
    <3>1. x \in Nat
      BY TokenAssumption
    <3>2. CASE n > 0 /\ x > sequence
      <4>1. [amount |-> n, expiration_ledger |-> x]
              \in [amount : Nat, expiration_ledger : Nat]
        BY <2>0, <3>1, <3>2
      <4> QED
        BY <1>0, <2>0, <2>3, <3>2, <4>1 DEF Approve, AllowancesOK
    <3>3. CASE ~(n > 0 /\ x > sequence)
      BY <1>0, <2>3, <3>3 DEF Approve, AllowancesOK, NoAllowance
    <3> QED
      BY <3>2, <3>3
  <2> QED
    BY <1>1, <2>1, <2>2, <2>3
       DEF Transfer, Burn, AdminMint, RecordedMint, AdminBurn
<1>3. CASE Unsigned
  BY <1>1, <1>3 DEF Unsigned, Initialize, LegacyMint, RecordedMint
<1>4. ASSUME NEW c \in Caller, Administer(c) PROVE AllowancesOK'
  BY <1>1, <1>4 DEF Administer, Pause, Unpause, Freeze, Unfreeze,
     DestroyFrozenFunds, TransferOwnership, GrantRole, RevokeRole
<1>5. CASE TokenCloseLedger
  BY <1>1, <1>5 DEF TokenCloseLedger, CloseLedger
<1>6. CASE UNCHANGED tokenVars
  BY <1>1, <1>6 DEF tokenVars
<1>7. CASE FromContract
  BY <1>1, <1>7 DEF FromContract, Pause, AdminMint, RecordedMint, AdminBurn
<1> QED
  BY <1>2, <1>3, <1>4, <1>5, <1>6, <1>7 DEF TokenStep, TokenNext, TokenCall

LEMMA RequestsStep == TokenInv /\ TokenStep => RequestsOK'
<1> SUFFICES ASSUME TokenInv, TokenStep
             PROVE  RequestsOK'
  OBVIOUS
<1>0. RequestsOK /\ sequence \in Nat /\ TokenContract \in Address
  BY TokenAssumption DEF TokenInv, TokenTypeOK, RequestsOK
<1>1. ASSUME UNCHANGED requests
      PROVE  RequestsOK'
  BY <1>0, <1>1 DEF RequestsOK, requests
<1>2. ASSUME NEW m \in Address, NEW a \in Address, NEW n \in Int,
             NEW id \in RequestId, RecordedMint(m, a, n, id)
      PROVE  RequestsOK'
  <2>1. n \in Nat
    BY <1>2 DEF RecordedMint, MintInternal, ValidAmount
  <2> QED
    BY <1>0, <1>2, <2>1 DEF RecordedMint, RequestsOK, MintRequest
<1>3. ASSUME NEW m \in Address, NEW a \in Address, NEW n \in Int,
             NEW id \in RequestId, AdminBurn(m, a, n, id)
      PROVE  RequestsOK'
  <2>1. n \in Nat
    BY <1>3 DEF AdminBurn, BurnInternal, ValidAmount
  <2> QED
    BY <1>0, <1>3, <2>1 DEF AdminBurn, RequestsOK, BurnRequest
<1>4. ASSUME NEW c \in Caller, MoveFunds(c) PROVE RequestsOK'
  <2>1. c \in Address /\ Party \subseteq Address /\ Amount \subseteq Int
    BY TokenAssumption
  <2> QED
    BY <1>1, <1>2, <1>3, <1>4, <2>1 DEF MoveFunds, Transfer, TransferFrom, Approve,
       Burn, BurnFrom, AdminMint
<1>5. CASE Unsigned
  BY <1>0, <1>1, <1>2, <1>5, TokenAssumption DEF Unsigned, Initialize, LegacyMint
<1>6. ASSUME NEW c \in Caller, Administer(c) PROVE RequestsOK'
  BY <1>1, <1>6 DEF Administer, Pause, Unpause, Freeze, Unfreeze,
     DestroyFrozenFunds, TransferOwnership, GrantRole, RevokeRole
<1>7. CASE TokenCloseLedger \/ UNCHANGED tokenVars
  BY <1>1, <1>7 DEF TokenCloseLedger, CloseLedger, tokenVars
<1>8. CASE FromContract
  BY <1>1, <1>2, <1>3, <1>8 DEF FromContract, Pause, AdminMint
<1> QED
  BY <1>4, <1>5, <1>6, <1>7, <1>8 DEF TokenStep, TokenNext, TokenCall

LEMMA TokenInvInit == TokenInit => TokenInv
<1> SUFFICES ASSUME TokenInit PROVE TokenInv
  OBVIOUS
<1>1. LedgerInit
  BY DEF TokenInit, LedgerInit
<1>2. LedgerInv
  BY <1>1, LedgerInvInit
<1>3. TokenTypeOK
  BY <1>2 DEF TokenInit, TokenTypeOK, LedgerInv, NoAllowance
<1> QED
  BY <1>2, <1>3 DEF TokenInv

LEMMA TokenInvStep == TokenInv /\ TokenStep => TokenInv'
<1> SUFFICES ASSUME TokenInv, TokenStep
             PROVE  TokenInv'
  OBVIOUS
<1>1. LedgerInv'
  BY StepRefines, LedgerInvStep DEF TokenInv
<1>2. ControlOK' /\ AllowancesOK' /\ RequestsOK'
  BY ControlStep, AllowancesStep, RequestsStep
<1> QED
  BY <1>1, <1>2
     DEF TokenInv, TokenTypeOK, LedgerInv, ControlOK, AllowancesOK, RequestsOK

LEMMA TokenSteps == [TokenNext]_tokenVars => TokenStep
  BY DEF TokenStep

LEMMA TokenInvariant == TokenSpec => []TokenInv
  BY TokenInvInit, TokenInvStep, TokenSteps, PTL DEF TokenSpec

(* The type invariant holds in every behaviour of the contract. *)
THEOREM TokenTypeCorrect == TokenSpec => []TokenTypeOK
<1>1. TokenInv => TokenTypeOK
  BY DEF TokenInv
<1> QED
  BY <1>1, TokenInvariant, PTL

(* Every behaviour of the contract is one of the abstract ledger: no entry   *)
(* point changes a balance and forgets total_supply, or the other way round. *)
THEOREM TokenImplementsLedger == TokenSpec => ImplementsLedger
<1>1. TokenInit => LedgerInit
  BY DEF TokenInit, LedgerInit
<1> QED
  BY <1>1, TokenInvariant, StepRefines, TokenSteps, PTL DEF TokenSpec, ImplementsLedger, LedgerSpec

(* So the published supply is what the holders own together, under the cap.  *)
THEOREM TokenSupplyBacked == TokenSpec => [](SupplyBacked /\ SupplyCapped)
  BY TokenImplementsLedger, LedgerConserves DEF ImplementsLedger
-----------------------------------------------------------------------------
(* Frozen, paused and allowed funds, and the records *)

\* The pause, the blacklist and the allowances as they bear on a step that moves
\* funds: who is debited, whether by an allowance, and who is credited.
Debits(from, amount) ==
    UNCHANGED allowances \/ \E spender \in Address : SpendAllowance(from, spender, amount)

Minted == \E a \in Address, n \in Int :
    MintInternal(a, n) /\ ~paused /\ a \notin frozen /\ UNCHANGED allowances

Burned == \E a \in Address, n \in Int :
    BurnInternal(a, n) /\ ~paused /\ Debits(a, n)

Transferred == \E a, b \in Address, n \in Int :
    TransferInternal(a, b, n) /\ ~paused /\ {a, b} \cap frozen = {} /\ Debits(a, n)

Destroyed == \E o, a \in Address : DestroyFrozenFunds(o, a)

(* Every step that moves funds is a mint, a burn, a transfer or a clawback. *)
LEMMA FundsStep ==
    ASSUME TokenStep
    PROVE  UNCHANGED funds \/ Minted \/ Burned \/ Transferred \/ Destroyed
<1>0. Caller \subseteq Address /\ Party \subseteq Address /\ Amount \subseteq Int
  BY TokenAssumption
<1>1. ASSUME NEW c \in Caller, MoveFunds(c)
      PROVE  UNCHANGED funds \/ Minted \/ Burned \/ Transferred
  <2> PICK a \in Party, n \in Amount :
        \/ Transfer(c, a, n)
        \/ \E b \in Party : TransferFrom(c, a, b, n)
        \/ \E x \in Expiration : Approve(c, a, n, x)
        \/ Burn(c, n)
        \/ BurnFrom(c, a, n)
        \/ \E id \in RequestId : AdminMint(c, a, n, id) \/ AdminBurn(c, a, n, id)
    BY <1>1, Zenon DEF MoveFunds
  <2>0. c \in Address /\ a \in Address /\ n \in Int
    BY <1>0
  <2>1. CASE Transfer(c, a, n)
    BY <2>0, <2>1 DEF Transfer, Transferred, Debits
  <2>2. ASSUME NEW b \in Party, TransferFrom(c, a, b, n) PROVE Transferred
    BY <1>0, <2>0, <2>2 DEF TransferFrom, Transferred, Debits
  <2>3. ASSUME NEW x \in Expiration, Approve(c, a, n, x) PROVE UNCHANGED funds
    BY <2>3 DEF Approve
  <2>4. CASE Burn(c, n)
    BY <2>0, <2>4 DEF Burn, Burned, Debits
  <2>5. CASE BurnFrom(c, a, n)
    BY <2>0, <2>5 DEF BurnFrom, Burned, Debits
  <2>6. ASSUME NEW id \in RequestId, AdminMint(c, a, n, id) PROVE Minted
    BY <2>0, <2>6 DEF AdminMint, RecordedMint, Minted
  <2>7. ASSUME NEW id \in RequestId, AdminBurn(c, a, n, id) PROVE Burned
    BY <2>0, <2>7 DEF AdminBurn, Burned, Debits
  <2> QED
    BY <2>1, <2>2, <2>3, <2>4, <2>5, <2>6, <2>7
<1>2. ASSUME NEW c \in Caller, Administer(c)
      PROVE  UNCHANGED funds \/ Destroyed
  <2>1. ASSUME NEW a \in Party, DestroyFrozenFunds(c, a) PROVE Destroyed
    BY <1>0, <2>1 DEF Destroyed
  <2> QED
    BY <1>2, <2>1 DEF Administer, Pause, Unpause, Freeze, Unfreeze,
       TransferOwnership, GrantRole, RevokeRole
<1>3. CASE Unsigned
  <2>1. ASSUME NEW a \in Party, NEW n \in Amount, NEW id \in RequestId, LegacyMint(a, n, id)
        PROVE  Minted
    BY <1>0, <2>1 DEF LegacyMint, RecordedMint, Minted
  <2> QED
    BY <1>3, <2>1 DEF Unsigned, Initialize
<1>4. CASE TokenCloseLedger \/ UNCHANGED tokenVars
  BY <1>4 DEF TokenCloseLedger, tokenVars
<1>5. CASE FromContract
  <2>1. ASSUME NEW c \in Address, Pause(c) PROVE UNCHANGED funds
    BY <2>1 DEF Pause
  <2>2. ASSUME NEW c \in Address, NEW a \in Address, NEW n \in Int, NEW id \in RequestId,
               AdminMint(c, a, n, id) \/ AdminBurn(c, a, n, id)
        PROVE  Minted \/ Burned
    BY <2>2 DEF AdminMint, RecordedMint, AdminBurn, Minted, Burned, Debits
  <2> QED
    BY <1>5, <2>1, <2>2 DEF FromContract
<1> QED
  BY <1>1, <1>2, <1>3, <1>4, <1>5 DEF TokenStep, TokenNext, TokenCall

(* The balances after each kind of step. *)
LEMMA BalancesAfter ==
    ASSUME TokenInv
    PROVE  /\ \A a \in Address, n \in Int : MintInternal(a, n) =>
                /\ balances'[a] = balances[a] + n /\ n > 0
                /\ \A c \in Address \ {a} : balances'[c] = balances[c]
           /\ \A a \in Address, n \in Int : BurnInternal(a, n) =>
                /\ balances'[a] = balances[a] - n /\ n > 0
                /\ total_supply' = total_supply - n
                /\ \A c \in Address \ {a} : balances'[c] = balances[c]
           /\ \A a, b \in Address, n \in Int : TransferInternal(a, b, n) =>
                /\ balances'[a] = balances[a] - n /\ n > 0
                /\ balances'[b] = balances[b] + n
                /\ \A c \in Address \ {a, b} : balances'[c] = balances[c]
           /\ \A o, a \in Address : DestroyFrozenFunds(o, a) =>
                /\ a \in frozen /\ balances'[a] = 0
                /\ total_supply' = total_supply - balances[a]
                /\ UNCHANGED allowances
                /\ \A c \in Address \ {a} : balances'[c] = balances[c]
<1>1. balances \in [Address -> Nat]
  BY DEF TokenInv, TokenTypeOK
<1> QED
  BY <1>1 DEF MintInternal, BurnInternal, TransferInternal, DestroyFrozenFunds, ValidAmount

LEMMA FundsTypes ==
    ASSUME TokenInv
    PROVE  /\ total_supply \in Nat /\ \A a \in Address : balances[a] \in Nat
           /\ frozen \subseteq Address
  BY DEF TokenInv, TokenTypeOK

LEMMA FrozenStep ==
    TokenInv /\ TokenStep =>
        \A a \in frozen :
          /\ balances'[a] <= balances[a]
          /\ balances'[a] < balances[a] =>
               total_supply - total_supply' = balances[a] - balances'[a]
<1> SUFFICES ASSUME TokenInv, TokenStep, NEW a \in frozen
             PROVE  /\ balances'[a] <= balances[a]
                    /\ balances'[a] < balances[a] =>
                         total_supply - total_supply' = balances[a] - balances'[a]
  OBVIOUS
<1> USE FundsTypes
<1>1. CASE UNCHANGED funds
  BY <1>1 DEF funds
<1>2. CASE Minted
  BY <1>2, BalancesAfter DEF Minted
<1>3. CASE Burned
  BY <1>3, BalancesAfter DEF Burned
<1>4. CASE Transferred
  <2>1. balances'[a] = balances[a]
    BY <1>4, BalancesAfter DEF Transferred
  <2> QED
    BY <2>1
<1>5. CASE Destroyed
  BY <1>5, BalancesAfter DEF Destroyed
<1> QED
  BY <1>1, <1>2, <1>3, <1>4, <1>5, FundsStep

LEMMA PausedStep ==
    TokenInv /\ TokenStep =>
        (paused => \A a \in Address :
            /\ balances'[a] <= balances[a]
            /\ a \notin frozen => balances'[a] = balances[a])
<1> SUFFICES ASSUME TokenInv, TokenStep, paused, NEW a \in Address
             PROVE  /\ balances'[a] <= balances[a]
                    /\ a \notin frozen => balances'[a] = balances[a]
  OBVIOUS
<1>1. UNCHANGED funds \/ Destroyed
  BY FundsStep DEF Minted, Burned, Transferred
<1>2. CASE UNCHANGED funds
  BY <1>2, FundsTypes DEF funds
<1>3. CASE Destroyed
  BY <1>3, FundsTypes, BalancesAfter DEF Destroyed
<1> QED
  BY <1>1, <1>2, <1>3

(* Spending takes the amount off one unexpired allowance. *)
LEMMA SpendExact ==
    ASSUME TokenInv, NEW from \in Address, NEW spender \in Address, NEW n \in Int, n > 0,
           SpendAllowance(from, spender, n)
    PROVE  /\ sequence <= allowances[<<from, spender>>].expiration_ledger
           /\ allowances[<<from, spender>>].amount - allowances'[<<from, spender>>].amount = n
           /\ \A p \in Address \X Address :
                 p # <<from, spender>> => allowances'[p] = allowances[p]
<1> PICK p : p = <<from, spender>>
  OBVIOUS
<1> PICK data : data = allowances[p]
  OBVIOUS
<1> PICK left : left = IF data.amount - n > 0 THEN [data EXCEPT !.amount = data.amount - n]
                                              ELSE NoAllowance
  OBVIOUS
<1>1. /\ allowances \in [Address \X Address -> [amount : Nat, expiration_ledger : Nat]]
      /\ sequence \in Nat /\ p \in Address \X Address
  BY DEF TokenInv, TokenTypeOK
<1>2. data \in [amount : Nat, expiration_ledger : Nat]
  BY <1>1
<1>3. /\ data.expiration_ledger >= sequence /\ data.amount >= n
      /\ allowances' = [allowances EXCEPT ![p] = left]
  BY DEF SpendAllowance
<1>4. data.amount - left.amount = n
  BY <1>2, <1>3 DEF NoAllowance
<1>5. allowances'[p] = left /\ \A q \in Address \X Address : q # p => allowances'[q] = allowances[q]
  BY <1>1, <1>3
<1> QED
  BY <1>1, <1>2, <1>3, <1>4, <1>5

LEMMA AllowanceStep ==
    ASSUME TokenInv, TokenStep, NEW from \in Address, NEW spender \in Address,
           allowances'[<<from, spender>>] # allowances[<<from, spender>>],
           balances' # balances
    PROVE  /\ sequence <= allowances[<<from, spender>>].expiration_ledger
           /\ balances[from] - balances'[from]
                = allowances[<<from, spender>>].amount - allowances'[<<from, spender>>].amount
           /\ \A p \in Address \X Address :
                 p # <<from, spender>> => allowances'[p] = allowances[p]
<1>1. ~UNCHANGED allowances /\ ~UNCHANGED funds
  BY DEF funds
<1>2. Burned \/ Transferred
  BY <1>1, FundsStep, BalancesAfter DEF Minted, Destroyed
<1>3. PICK a \in Address, n \in Int, s \in Address :
        /\ SpendAllowance(a, s, n) /\ n > 0 /\ balances'[a] = balances[a] - n
  BY <1>1, <1>2, BalancesAfter DEF Burned, Transferred, Debits
<1>4. n \in Int /\ balances[a] \in Nat
  BY FundsTypes
<1>5. /\ sequence <= allowances[<<a, s>>].expiration_ledger
      /\ allowances[<<a, s>>].amount - allowances'[<<a, s>>].amount = n
      /\ \A p \in Address \X Address : p # <<a, s>> => allowances'[p] = allowances[p]
  BY <1>3, <1>4, SpendExact
<1>6. <<from, spender>> = <<a, s>> /\ from = a /\ spender = s
  BY <1>5
<1> QED
  BY <1>3, <1>4, <1>5, <1>6

(* transfer, transfer_from, the mints and the burns (contract.rs:307-567),  *)
(* and destroy_frozen_funds (657-688): a frozen account receives nothing,   *)
(* and what it loses leaves circulation.                                    *)
THEOREM TokenFrozenFundsStay == TokenSpec => FrozenFundsStay
  BY TokenInvariant, FrozenStep, TokenSteps, PTL DEF TokenSpec, FrozenFundsStay

(* pause (contract.rs:569-603) as the same entry points check it: while the *)
(* contract is paused, only the clawback changes balances.                  *)
THEOREM TokenPauseStopsFunds == TokenSpec => PauseStopsFunds
  BY TokenInvariant, PausedStep, TokenSteps, PTL DEF TokenSpec, PauseStopsFunds

\* The property's body, so that the composition of the contracts can state it too.
Honoured ==
    \A from, spender \in Address :
        LET data == allowances[<<from, spender>>]
            left == allowances'[<<from, spender>>] IN
        left # data /\ balances' # balances =>
            /\ sequence <= data.expiration_ledger
            /\ balances[from] - balances'[from] = data.amount - left.amount
            /\ \A p \in Address \X Address :
                  p # <<from, spender>> => allowances'[p] = allowances[p]

LEMMA HonouredStep == TokenInv /\ TokenStep => Honoured
  BY AllowanceStep DEF Honoured

LEMMA HonouredAlways == [][Honoured]_tokenVars => AllowanceHonoured
  BY PTL DEF Honoured, AllowanceHonoured

(* spend_allowance (storage.rs:274-304) in transfer_from and burn_from: a    *)
(* debit that uses an allowance is taken in full off one unexpired          *)
(* allowance, granted by the account debited.                               *)
THEOREM TokenAllowanceHonoured == TokenSpec => AllowanceHonoured
  BY HonouredStep, HonouredAlways, TokenSteps, TokenInvariant, PTL DEF TokenSpec
-----------------------------------------------------------------------------
\* What the records of a trail add up to.
Recorded(trail) == Total([r \in trail |-> r.amount])

\* The trails are finite, or they would add up to nothing.
AuditInv == /\ IsFiniteSet(mint_requests) /\ IsFiniteSet(burn_requests)
            /\ SupplyAudited

(* A new record adds its amount to its trail. *)
LEMMA RecordAdded ==
    ASSUME NEW trail, IsFiniteSet(trail), NEW q, q \notin trail
    PROVE  (\A r \in trail \cup {q} : r.amount \in Nat) =>
              /\ IsFiniteSet(trail \cup {q})
              /\ Recorded(trail) \in Nat
              /\ Recorded(trail \cup {q}) = Recorded(trail) + q.amount
<1>1. PICK f : f = [r \in trail |-> r.amount]
  OBVIOUS
<1>2. PICK g : g = [r \in trail \cup {q} |-> r.amount]
  OBVIOUS
<1>3. Recorded(trail) = Total(f) /\ Recorded(trail \cup {q}) = Total(g)
  BY <1>1, <1>2, Zenon DEF Recorded
<1> DEFINE Typed == f \in [trail -> Nat] /\ g \in [trail \cup {q} -> Nat]
<1>4. (\A r \in trail \cup {q} : r.amount \in Nat) => Typed
  BY <1>1, <1>2
<1>5. g[q] = q.amount /\ \A r \in trail : g[r] = f[r]
  BY <1>1, <1>2
<1>6. Typed => /\ Total(f) \in Nat
               /\ Total(g) = Total(f) + g[q]
  <2>1. \A r \in trail : g[r] = f[r]
    BY <1>5
  <2> QED
    BY <2>1, TotalGrows, TotalType
<1>7. IsFiniteSet(trail \cup {q})
  BY FS_AddElement
<1> HIDE DEF Typed
<1> QED
  BY <1>3, <1>4, <1>5, <1>6, <1>7

LEMMA RecordedType ==
    ASSUME NEW trail, IsFiniteSet(trail), \A r \in trail : r.amount \in Nat
    PROVE  Recorded(trail) \in Nat
<1> DEFINE f == [r \in trail |-> r.amount]
<1>1. f \in [trail -> Nat]
  OBVIOUS
<1>2. Recorded(trail) = Total(f)
  BY Zenon DEF Recorded
<1> HIDE DEF f
<1> QED
  BY <1>1, <1>2, TotalType

LEMMA TrailsNatural ==
    ASSUME TokenInv, AuditInv
    PROVE  /\ \A r \in mint_requests : r.amount \in Nat
           /\ \A r \in burn_requests : r.amount \in Nat
           /\ Recorded(mint_requests) \in Nat /\ Recorded(burn_requests) \in Nat
           /\ total_supply \in Nat /\ MIN_TRANSFER \in Nat
           /\ total_supply + Recorded(burn_requests) <= Recorded(mint_requests)
<1>1. /\ \A r \in mint_requests : r.amount \in Nat
      /\ \A r \in burn_requests : r.amount \in Nat
      /\ total_supply \in Nat /\ MIN_TRANSFER \in Nat
  BY TokenAssumption DEF TokenInv, TokenTypeOK, MintRequest, BurnRequest
<1>2. Recorded(mint_requests) \in Nat /\ Recorded(burn_requests) \in Nat
  BY <1>1, RecordedType DEF AuditInv
<1>3. total_supply + Recorded(burn_requests) <= Recorded(mint_requests)
  BY DEF AuditInv, SupplyAudited, Recorded
<1> QED
  BY <1>1, <1>2, <1>3

(* Records stand, and the supply does not grow. *)
LEMMA AuditStands ==
    ASSUME TokenInv, AuditInv, UNCHANGED requests,
           total_supply' \in Int, total_supply' <= total_supply
    PROVE  AuditInv'
<1>1. mint_requests' = mint_requests /\ burn_requests' = burn_requests
  BY DEF requests
<1> PICK m, b : m = Recorded(mint_requests) /\ b = Recorded(burn_requests)
  OBVIOUS
<1>2. total_supply' + b <= m
  <2>1. /\ m \in Nat /\ b \in Nat /\ total_supply \in Nat /\ total_supply + b <= m
        /\ total_supply' \in Int /\ total_supply' <= total_supply
    BY TrailsNatural
  <2> QED
    BY <2>1
<1>3. SupplyAudited'
  BY <1>1, <1>2 DEF SupplyAudited, Recorded
<1> QED
  BY <1>1, <1>3 DEF AuditInv

LEMMA MintAudited ==
    ASSUME TokenInv, AuditInv, NEW minter, NEW to, NEW n \in Int, NEW id,
           RecordedMint(minter, to, n, id)
    PROVE  AuditInv'
<1> DEFINE q == [to |-> to, amount |-> n, ledger |-> sequence, minter |-> minter,
                 external_ref |-> id]
<1> PICK M : M = mint_requests'
  OBVIOUS
<1>1. /\ n > 0 /\ n \in Nat /\ total_supply' = total_supply + n
      /\ M = mint_requests \cup {q} /\ UNCHANGED burn_requests
  BY TrailsNatural DEF RecordedMint, MintInternal, ValidAmount
<1>2. q \notin mint_requests
  BY DEF RecordedMint, MintRequestExists
<1>3. \A r \in mint_requests \cup {q} : r.amount \in Nat
  BY <1>1, TrailsNatural
<1>4. /\ IsFiniteSet(M) /\ Recorded(M) = Recorded(mint_requests) + n
  <2>1. q.amount = n
    OBVIOUS
  <2> HIDE DEF q
  <2> QED
    BY <1>1, <1>2, <1>3, <2>1, RecordAdded DEF AuditInv
<1>5. total_supply' + Recorded(burn_requests) <= Recorded(M)
  BY <1>1, <1>4, TrailsNatural
<1>6. SupplyAudited'
  BY <1>1, <1>5 DEF SupplyAudited, Recorded
<1> QED
  BY <1>1, <1>4, <1>6 DEF AuditInv

LEMMA BurnAudited ==
    ASSUME TokenInv, AuditInv, NEW operator, NEW from, NEW n \in Int, NEW id,
           AdminBurn(operator, from, n, id)
    PROVE  AuditInv'
<1> DEFINE q == [from |-> from, amount |-> n, ledger |-> sequence,
                 operator |-> operator, external_ref |-> id]
<1> PICK B : B = burn_requests'
  OBVIOUS
<1>1. /\ n > 0 /\ n \in Nat /\ total_supply' = total_supply - n
      /\ B = burn_requests \cup {q} /\ UNCHANGED mint_requests
  BY TrailsNatural DEF AdminBurn, BurnInternal, ValidAmount
<1>2. q \notin burn_requests
  BY DEF AdminBurn, BurnRequestExists
<1>3. \A r \in burn_requests \cup {q} : r.amount \in Nat
  BY <1>1, TrailsNatural
<1>4. /\ IsFiniteSet(B) /\ Recorded(B) = Recorded(burn_requests) + n
  <2>1. q.amount = n
    OBVIOUS
  <2> HIDE DEF q
  <2> QED
    BY <1>1, <1>2, <1>3, <2>1, RecordAdded DEF AuditInv
<1>5. total_supply' + Recorded(B) <= Recorded(mint_requests)
  BY <1>1, <1>4, TrailsNatural
<1>6. SupplyAudited'
  BY <1>1, <1>5 DEF SupplyAudited, Recorded
<1> QED
  BY <1>1, <1>4, <1>6 DEF AuditInv

LEMMA AuditStep == TokenInv /\ AuditInv /\ TokenStep => AuditInv'
<1> SUFFICES ASSUME TokenInv, AuditInv, TokenStep PROVE AuditInv'
  OBVIOUS
<1>0. total_supply' \in Nat /\ total_supply \in Nat /\ Amount \subseteq Int
  BY TokenInvStep, TrailsNatural, TokenAssumption DEF TokenInv, TokenTypeOK
<1>1. ASSUME UNCHANGED requests, UNCHANGED total_supply PROVE AuditInv'
  BY <1>0, <1>1, AuditStands
<1>2. ASSUME NEW c \in Caller, MoveFunds(c) PROVE AuditInv'
  <2> PICK a \in Party, n \in Amount :
        \/ Transfer(c, a, n)
        \/ \E b \in Party : TransferFrom(c, a, b, n)
        \/ \E x \in Expiration : Approve(c, a, n, x)
        \/ Burn(c, n)
        \/ BurnFrom(c, a, n)
        \/ \E id \in RequestId : AdminMint(c, a, n, id) \/ AdminBurn(c, a, n, id)
    BY <1>2, Zenon DEF MoveFunds
  <2>1. CASE Transfer(c, a, n)
    BY <1>1, <2>1 DEF Transfer, TransferInternal
  <2>2. ASSUME NEW b \in Party, TransferFrom(c, a, b, n) PROVE AuditInv'
    BY <1>1, <2>2 DEF TransferFrom, TransferInternal
  <2>3. ASSUME NEW x \in Expiration, Approve(c, a, n, x) PROVE AuditInv'
    BY <1>1, <2>3 DEF Approve, funds
  <2>4. CASE Burn(c, n) \/ BurnFrom(c, a, n)
    <3>1. UNCHANGED requests /\ n > 0 /\ total_supply' = total_supply - n
      BY <1>0, <2>4, TrailsNatural DEF Burn, BurnFrom, BurnInternal, ValidAmount
    <3>2. n \in Int
      BY <1>0
    <3> QED
      BY <1>0, <3>1, <3>2, AuditStands
  <2>5. ASSUME NEW id \in RequestId, AdminMint(c, a, n, id) \/ AdminBurn(c, a, n, id)
        PROVE  AuditInv'
    BY <1>0, <2>5, MintAudited, BurnAudited DEF AdminMint
  <2> QED
    BY <2>1, <2>2, <2>3, <2>4, <2>5
<1>3. ASSUME NEW c \in Caller, Administer(c) PROVE AuditInv'
  <2>1. ASSUME NEW a \in Party, DestroyFrozenFunds(c, a) PROVE AuditInv'
    <3>1. UNCHANGED requests /\ balances[a] > 0 /\ total_supply' = total_supply - balances[a]
      BY <2>1 DEF DestroyFrozenFunds
    <3>2. balances[a] \in Nat
      BY TokenAssumption DEF TokenInv, TokenTypeOK
    <3> QED
      BY <1>0, <3>1, <3>2, AuditStands
  <2> QED
    BY <1>1, <1>3, <2>1 DEF Administer, Pause, Unpause, Freeze, Unfreeze,
       TransferOwnership, GrantRole, RevokeRole, funds
<1>4. CASE Unsigned
  BY <1>0, <1>1, <1>4, MintAudited DEF Unsigned, Initialize, LegacyMint, funds
<1>5. CASE TokenCloseLedger \/ UNCHANGED tokenVars
  BY <1>1, <1>5 DEF TokenCloseLedger, tokenVars, funds
<1>6. CASE FromContract
  BY <1>1, <1>6, MintAudited, BurnAudited DEF FromContract, Pause, AdminMint, funds
<1> QED
  BY <1>2, <1>3, <1>4, <1>5, <1>6 DEF TokenStep, TokenNext, TokenCall

LEMMA AuditStarts == TokenInit => AuditInv
<1> SUFFICES ASSUME TokenInit PROVE AuditInv
  OBVIOUS
<1>1. IsFiniteSet({}) /\ Recorded({}) \in Nat
  BY FS_EmptySet, RecordedType
<1>2. mint_requests = {} /\ burn_requests = {} /\ total_supply = 0
  BY DEF TokenInit
<1>3. total_supply + Recorded(burn_requests) <= Recorded(mint_requests)
  BY <1>1, <1>2
<1> QED
  BY <1>1, <1>2, <1>3 DEF AuditInv, SupplyAudited, Recorded

(* admin_mint, mint and admin_burn (contract.rs:372-464, 518-567), and every *)
(* path that lowers the supply without a record: what circulates and what   *)
(* was redeemed on record was all minted on record, each request once.      *)
THEOREM TokenSupplyAudited == TokenSpec => []SupplyAudited
<1>1. AuditInv => SupplyAudited
  BY DEF AuditInv
<1> QED
  BY <1>1, AuditStarts, AuditStep, TokenSteps, TokenInvariant, PTL DEF TokenSpec
=============================================================================
