-------------------------- MODULE DeploymentProofs --------------------------
(***************************************************************************)
(* What the deployment file says is so, for any number of runs, machines,   *)
(* contracts and proposals, killed or refused anywhere.                     *)
(***************************************************************************)
EXTENDS Deployment, TLAPS

Instance == [kind : Contract, by : [Identity -> Nat], token : Nat, oracle : Nat]
Proposal == [treasury : Nat, approved : BOOLEAN, target : Nat, executed : BOOLEAN]

ChainTypeOK == instances \in Seq(Instance) /\ proposals \in Seq(Proposal)

AllRecorded(file) == \A c \in Contract : file.contracts[c] # 0

\* What FileIsTrue says of the file and the chain, of any record of the
\* deployment and any contracts.
TrueOn(file, on) ==
    /\ \A c \in Contract : file.contracts[c] # 0 =>
          file.contracts[c] \in DOMAIN on /\ on[file.contracts[c]].kind = c
    /\ file.initialized # {} => AllRecorded(file)
    /\ \A c \in Contract \cap file.initialized : on[file.contracts[c]].by # NoKeys
    /\ "treasuryOracle" \in file.initialized =>
          /\ Contract \subseteq file.initialized
          /\ on[file.contracts["treasury"]].oracle = file.contracts["oracle"]
    /\ "treasuryMinter" \notin file.initialized

IsTrue(file) == TrueOn(file, instances)

\* Keys on record are complete, and on the first machine those at hand.
KeysTrue(file) ==
    file.publicKeys # NoKeys =>
        /\ \A i \in Identity : file.publicKeys[i] # 0
        /\ machine = 1 => file.publicKeys = keys

\* The running script knows what the file says, and what it did since.
ScriptAhead ==
    /\ pc = "off" => config = Blank /\ written = TRUE
    /\ pc # "off" /\ written => config = saved
    /\ pc # "off" => /\ saved.initialized \subseteq config.initialized
                     /\ \A c \in Contract : saved.contracts[c] # 0 =>
                           config.contracts[c] = saved.contracts[c]
    /\ pc \notin {"off", "identities"} =>
          config.publicKeys = keys /\ \A i \in Identity : keys[i] # 0
    /\ pc \notin {"off", "identities", "funding", "deploy"} =>
          config.contracts = saved.contracts /\ AllRecorded(saved)
    /\ pc \in {"propose", "approve", "execute", "grant", "complete"} =>
          Contract \subseteq config.initialized

\* A contract takes its keys and links once, from a file with every contract on it.
InitializedOnce ==
    \A id \in DOMAIN instances : ~Fresh(id) =>
        /\ AllRecorded(saved)
        /\ id = saved.contracts[instances[id].kind]
        /\ instances[id].kind = "treasury" => instances[id].token = saved.contracts["bobtToken"]
        /\ \A i \in Identity : instances[id].by[i] # 0
        /\ machine = 1 => instances[id].by = keys

LinkedByVote ==
    /\ \A id \in DOMAIN instances : instances[id].oracle # 0 =>
          \E p \in DOMAIN proposals :
              proposals[p].treasury = id /\ proposals[p].approved /\ proposals[p].executed
    /\ pc \in {"approve", "execute"} =>
          /\ proposalId \in DOMAIN proposals
          /\ ~proposals[proposalId].executed
          /\ proposals[proposalId].treasury = config.contracts["treasury"]
          /\ proposals[proposalId].target = config.contracts["oracle"]
    /\ pc = "execute" => proposals[proposalId].approved

TypeInv == DeployTypeOK /\ ChainTypeOK

(* The token knows no role of the name asked for: the grant is refused.       *)
LEMMA GrantRefused ==
    GrantMinterRole => /\ pc = "grant" /\ written /\ pc' = "complete" /\ written' = FALSE
                       /\ UNCHANGED <<saved, config, proposalId, local, chain>>
<1> SUFFICES ASSUME GrantMinterRole
             PROVE  /\ pc = "grant" /\ written /\ pc' = "complete" /\ written' = FALSE
                    /\ UNCHANGED <<saved, config, proposalId, local, chain>>
  OBVIOUS
<1>1. Asked \notin TokenRole
  BY DEF Asked, TokenRole
<1>2. GrantAnswers \subseteq {"not asked", "refused"}
  BY <1>1 DEF GrantAnswers
<1>3. UNCHANGED minters /\ Continue("complete", config)
  BY <1>2 DEF GrantMinterRole
<1> QED
  BY <1>3 DEF GrantMinterRole, Continue, At, chain

DeployInv == /\ TypeInv
             /\ IsTrue(saved) /\ IsTrue(config)
             /\ KeysTrue(saved) /\ KeysTrue(config)
             /\ ScriptAhead /\ InitializedOnce /\ LinkedByVote
-----------------------------------------------------------------------------
(* The next contract of main's order is one of those missing. *)
LEMMA FirstMissing ==
    ASSUME NEW missing \in SUBSET Contract, missing # {}
    PROVE  First(missing) \in missing
<1> DEFINE Next(i) == InOrder[i] \in missing /\ \A j \in 1..i - 1 : InOrder[j] \notin missing
<1>1. \E i \in 1..3 : Next(i)
  <2>1. CASE "oracle" \in missing
    <3>1. Next(1)
      BY <2>1 DEF InOrder
    <3> QED
      BY <3>1
  <2>2. CASE "oracle" \notin missing /\ "bobtToken" \in missing
    <3>1. Next(2)
      BY <2>2 DEF InOrder
    <3> QED
      BY <3>1
  <2>3. CASE missing = {"treasury"}
    <3>1. Next(3)
      BY <2>3 DEF InOrder
    <3> QED
      BY <3>1
  <2> QED
    BY <2>1, <2>2, <2>3 DEF Contract
<1>2. PICK place : place = CHOOSE i \in 1..3 : Next(i)
  OBVIOUS
<1>3. Next(place)
  BY <1>1, <1>2
<1>4. First(missing) = InOrder[place]
  BY <1>2 DEF First
<1> QED
  BY <1>3, <1>4

(* Nothing deployed, nothing on file. *)
LEMMA DeployInvInit == DeployInit => DeployInv
<1> SUFFICES ASSUME DeployInit PROVE DeployInv
  OBVIOUS
<1> USE DeploymentAssumption DEF DeployInit, Blank, NoKeys
<1>1. TypeInv
  BY DEF TypeInv, DeployTypeOK, ChainTypeOK, DeployConfig, Id
<1>2. /\ IsTrue(saved) /\ IsTrue(config)
      /\ KeysTrue(saved) /\ KeysTrue(config)
  BY DEF IsTrue, TrueOn, AllRecorded, KeysTrue
<1>3. ScriptAhead
  BY DEF ScriptAhead
<1>4. InitializedOnce /\ LinkedByVote
  BY DEF InitializedOnce, LinkedByVote
<1> QED
  BY <1>1, <1>2, <1>3, <1>4 DEF DeployInv
(* A chain that grows, or has one record rewritten, keeps its type. *)
LEMMA Appended ==
    ASSUME NEW S, NEW s \in Seq(S), NEW x \in S
    PROVE  /\ Append(s, x) \in Seq(S) /\ Len(Append(s, x)) = Len(s) + 1
           /\ DOMAIN Append(s, x) = 1..Len(s) + 1
           /\ \A i \in 1..Len(s) : Append(s, x)[i] = s[i]
           /\ Append(s, x)[Len(s) + 1] = x
  OBVIOUS

LEMMA Rewritten ==
    ASSUME NEW S, NEW s \in Seq(S), NEW k \in DOMAIN s, NEW x \in S
    PROVE  /\ [s EXCEPT ![k] = x] \in Seq(S) /\ Len([s EXCEPT ![k] = x]) = Len(s)
           /\ DOMAIN [s EXCEPT ![k] = x] = DOMAIN s
  OBVIOUS

(* Every step keeps the types. *)
LEMMA DeployTypeStep == DeployInv /\ [DeployNext]_deployVars => TypeInv'
<1> SUFFICES ASSUME DeployInv, [DeployNext]_deployVars PROVE TypeInv'
  OBVIOUS
<1> USE DeploymentAssumption
<1>0. TypeInv /\ ScriptAhead /\ IsTrue(config)
  BY DEF DeployInv
<1>a. saved \in DeployConfig /\ config \in DeployConfig /\ Blank \in DeployConfig
  BY <1>0 DEF TypeInv, DeployTypeOK, Blank, NoKeys, DeployConfig, Id
<1>b. keys \in [Identity -> 0..machine] /\ machine \in 1..MaxMachines
      /\ instances \in Seq(Instance) /\ proposals \in Seq(Proposal)
  BY <1>0 DEF TypeInv, DeployTypeOK, ChainTypeOK
<1>c. \A f \in Contract \cup {"treasuryOracle"} : Flagged(f) \in DeployConfig
  BY <1>a DEF Flagged, DeployConfig
<1>d. \A c \in Contract, n \in Id : [config EXCEPT !.contracts[c] = n] \in DeployConfig
  BY <1>a DEF DeployConfig
<1>1. CASE LoadDeployment \/ SaveDeployment \/ FundAccounts \/ AllDeployed \/ AllInitialized
  BY <1>0, <1>1, <1>a DEF LoadDeployment, SaveDeployment, FundAccounts, AllDeployed,
     AllInitialized, chain, local, TypeInv, DeployTypeOK, ChainTypeOK, At
<1>2. CASE Killed
  BY <1>0, <1>2, <1>a DEF Killed, Exit, chain, local, TypeInv, DeployTypeOK, ChainTypeOK
<1>3. CASE MoveToNewMachine
  <2>1. machine' \in 1..MaxMachines /\ keys' \in [Identity -> 0..machine']
    BY <1>3, <1>b DEF MoveToNewMachine, NoKeys
  <2> QED
    BY <1>0, <1>3, <2>1 DEF MoveToNewMachine, script, chain, TypeInv, DeployTypeOK, ChainTypeOK
<1>4. CASE GenerateKey
  <2>1. keys' \in [Identity -> 0..machine]
    BY <1>4, <1>b DEF GenerateKey
  <2> QED
    BY <1>0, <1>4, <2>1 DEF GenerateKey, script, chain, TypeInv, DeployTypeOK, ChainTypeOK
<1>5. CASE GenerateIdentities
  <2>1. [config EXCEPT !.publicKeys = keys] \in DeployConfig
    <3>1. keys \in [Identity -> 0..MaxMachines]
      BY <1>b
    <3> QED
      BY <1>a, <3>1 DEF DeployConfig
  <2> QED
    BY <1>0, <1>5, <2>1, <1>a DEF GenerateIdentities, Continue, local, chain, TypeInv, DeployTypeOK, ChainTypeOK
<1>6. CASE DeployContract
  <2> PICK c \in Contract :
        /\ Len(instances) < MaxInstances
        /\ NewInstance(c)
        /\ \/ /\ Continue("deploy", [config EXCEPT !.contracts[c] = Len(instances) + 1])
              /\ UNCHANGED proposalId
           \/ Exit
        /\ UNCHANGED <<saved, local, proposals, minters>>
    BY <1>6, FirstMissing DEF DeployContract, Undeployed
  <2>1. instances' \in Seq(Instance) /\ Len(instances') = Len(instances) + 1
    <3>1. [kind |-> c, by |-> NoKeys, token |-> 0, oracle |-> 0] \in Instance
      BY DEF Instance, NoKeys
    <3> QED
      BY <3>1, <1>b, Appended DEF NewInstance
  <2>2. Len(instances) + 1 \in Id
    BY <1>b DEF Id
  <2>3. config' \in DeployConfig /\ pc' \in {"off", "deploy"} /\ written' \in BOOLEAN
        /\ (proposalId' = proposalId \/ proposalId' = 0)
    BY <1>a, <1>d, <2>2 DEF Continue, Exit
  <2>4. Len(instances') <= MaxInstances
    BY <1>b, <2>1
  <2> QED
    BY <1>0, <2>1, <2>3, <2>4 DEF local, TypeInv, DeployTypeOK, ChainTypeOK
<1>7. CASE InitializeContract
  <2> PICK c, id :
        /\ c \in Contract /\ id = config.contracts[c]
        /\ IF Fresh(id)
           THEN instances' = [instances EXCEPT ![id] = [@ EXCEPT !.by = config.publicKeys,
                   !.token = IF c = "treasury" THEN config.contracts["bobtToken"] ELSE 0]]
           ELSE UNCHANGED instances
        /\ \/ Continue("initialize", Flagged(c)) /\ UNCHANGED proposalId
           \/ Exit
        /\ UNCHANGED <<saved, local, proposals, minters>>
    BY <1>7, FirstMissing DEF InitializeContract, Uninitialized
  <2>1. instances' \in Seq(Instance) /\ Len(instances') = Len(instances)
    <3>1. id \in DOMAIN instances
      BY <1>7, <1>0 DEF InitializeContract, At, ScriptAhead, IsTrue, TrueOn, AllRecorded
    <3> DEFINE new == [instances[id] EXCEPT !.by = config.publicKeys,
                   !.token = IF c = "treasury" THEN config.contracts["bobtToken"] ELSE 0]
    <3>2. new \in Instance
      <4>1. instances[id] \in Instance
        BY <1>b, <3>1
      <4>2. config.publicKeys \in [Identity -> Nat] /\ config.contracts["bobtToken"] \in Nat
        BY <1>a DEF DeployConfig, Id, Contract
      <4> QED
        BY <4>1, <4>2 DEF Instance
    <3>3. instances' = instances \/ instances' = [instances EXCEPT ![id] = new]
      OBVIOUS
    <3> HIDE DEF new
    <3>4. /\ [instances EXCEPT ![id] = new] \in Seq(Instance)
          /\ Len([instances EXCEPT ![id] = new]) = Len(instances)
      BY <1>b, <3>1, <3>2, Rewritten
    <3> QED
      BY <1>b, <3>3, <3>4
  <2>2. config' \in DeployConfig /\ pc' \in {"off", "initialize"} /\ written' \in BOOLEAN
        /\ (proposalId' = proposalId \/ proposalId' = 0)
    BY <1>a, <1>c DEF Continue, Exit
  <2> QED
    BY <1>0, <2>1, <2>2 DEF local, TypeInv, DeployTypeOK, ChainTypeOK
<1>8. CASE ProposeSetOracle
  <2>1. /\ proposals' \in Seq(Proposal) /\ Len(proposals') >= Len(proposals)
        /\ Len(proposals') <= MaxProposals
        /\ pc' = "approve" => proposalId' = Len(proposals')
        /\ pc' # "approve" => UNCHANGED proposalId
    <3> DEFINE new == [treasury |-> Treasury, approved |-> FALSE,
                              target |-> config.contracts["oracle"], executed |-> FALSE]
    <3>1. new \in Proposal
      BY <1>a DEF Proposal, Treasury, DeployConfig, Contract, Id
    <3>2. \/ /\ proposals' = Append(proposals, new) /\ Len(proposals) < MaxProposals
             /\ \/ pc' = "approve" /\ proposalId' = Len(proposals) + 1
                \/ pc' = "grant" /\ UNCHANGED proposalId
          \/ UNCHANGED proposals /\ pc' = "grant" /\ UNCHANGED proposalId
      BY <1>8 DEF ProposeSetOracle, Skipped, Continue
    <3> HIDE DEF new
    <3>3. Append(proposals, new) \in Seq(Proposal) /\ Len(Append(proposals, new)) = Len(proposals) + 1
      BY <1>b, <3>1, Appended
    <3>4. Len(proposals) \in Nat /\ Len(proposals) <= MaxProposals
      BY <1>0 DEF TypeInv, DeployTypeOK, ChainTypeOK
    <3>5. MaxProposals \in Nat
      OBVIOUS
    <3>6. CASE UNCHANGED proposals
      BY <1>b, <3>2, <3>4, <3>5, <3>6
    <3>7. CASE proposals' = Append(proposals, new)
      BY <3>2, <3>3, <3>4, <3>5, <3>7
    <3> QED
      BY <3>2, <3>6, <3>7
  <2>2. /\ config' = config /\ pc' \in {"approve", "grant"} /\ written' \in BOOLEAN
        /\ UNCHANGED <<saved, machine, keys, instances, minters>>
    BY <1>0, <1>8 DEF ProposeSetOracle, Skipped, Continue, local, TypeInv, DeployTypeOK
  <2>3. proposalId' \in 0..Len(proposals')
    BY <1>0, <2>1 DEF TypeInv, DeployTypeOK, ChainTypeOK
  <2> QED
    BY <1>0, <2>1, <2>2, <2>3 DEF TypeInv, DeployTypeOK, ChainTypeOK
<1>9. CASE ApproveSetOracle \/ ExecuteSetOracle
  <2>1. /\ config' \in DeployConfig /\ pc' \in {"execute", "grant"} /\ written' \in BOOLEAN
        /\ UNCHANGED <<saved, machine, keys, minters, proposalId>>
    BY <1>0, <1>9, <1>a, <1>c DEF ApproveSetOracle, ExecuteSetOracle, Skipped, Continue, local, TypeInv, DeployTypeOK
  <2>2. proposalId \in DOMAIN proposals
    BY <1>9 DEF ApproveSetOracle, ExecuteSetOracle, At, DeployInv, LinkedByVote
  <2>3. proposals[proposalId] \in Proposal
    BY <1>b, <2>2
  <2>4. PICK new \in Proposal : proposals' = proposals \/ proposals' = [proposals EXCEPT ![proposalId] = new]
    <3>1. /\ \A b \in BOOLEAN : [proposals[proposalId] EXCEPT !.approved = b] \in Proposal
          /\ [proposals[proposalId] EXCEPT !.executed = TRUE] \in Proposal
      BY <2>3 DEF Proposal
    <3>2. Signs("treasurySigner2") \in BOOLEAN
      BY DEF Signs
    <3>3. \/ proposals' = proposals
          \/ proposals' = [proposals EXCEPT ![proposalId] = [@ EXCEPT !.approved = Signs("treasurySigner2")]]
          \/ proposals' = [proposals EXCEPT ![proposalId] = [@ EXCEPT !.executed = TRUE]]
      BY <1>9 DEF ApproveSetOracle, ExecuteSetOracle
    <3> QED
      BY <2>3, <3>1, <3>2, <3>3
  <2>5. proposals' \in Seq(Proposal) /\ Len(proposals') = Len(proposals)
    BY <1>b, <2>2, <2>4, Rewritten
  <2>6. instances' \in Seq(Instance) /\ Len(instances') = Len(instances)
    <3>1. CASE UNCHANGED instances
      BY <1>b, <3>1
    <3>2. CASE ~UNCHANGED instances
      <4>1. instances' = [instances EXCEPT ![Treasury] = [@ EXCEPT !.oracle = proposals[proposalId].target]]
        BY <1>9, <3>2 DEF ApproveSetOracle, ExecuteSetOracle
      <4>2. Treasury \in DOMAIN instances
        BY <1>0, <1>9 DEF ApproveSetOracle, ExecuteSetOracle, At, ScriptAhead, IsTrue, TrueOn, AllRecorded, Treasury, Contract
      <4> PICK linked : linked = [instances[Treasury] EXCEPT !.oracle = proposals[proposalId].target]
        OBVIOUS
      <4>3. linked \in Instance
        <5>1. proposals[proposalId].target \in Nat
          BY <2>3 DEF Proposal
        <5>2. instances[Treasury] \in Instance
          BY <1>b, <4>2
        <5> QED
          BY <5>1, <5>2 DEF Instance
      <4>4. instances' = [instances EXCEPT ![Treasury] = linked]
        BY <4>1
      <4>5. /\ [instances EXCEPT ![Treasury] = linked] \in Seq(Instance)
            /\ Len([instances EXCEPT ![Treasury] = linked]) = Len(instances)
        BY <1>b, <4>2, <4>3, Rewritten
      <4> QED
        BY <4>4, <4>5
    <3> QED
      BY <3>1, <3>2
  <2> QED
    BY <1>0, <2>1, <2>5, <2>6 DEF TypeInv, DeployTypeOK, ChainTypeOK
<1>10. CASE GrantMinterRole
  BY <1>0, <1>10, GrantRefused DEF local, chain, TypeInv, DeployTypeOK, ChainTypeOK
<1>11. CASE UNCHANGED deployVars
  BY <1>0, <1>11 DEF deployVars, script, chain, local, TypeInv, DeployTypeOK, ChainTypeOK
<1> QED
  BY <1>1, <1>2, <1>3, <1>4, <1>5, <1>6, <1>7, <1>8, <1>9, <1>10, <1>11 DEF DeployNext

(* What is on record stays true of a chain that grows. *)
LEMMA TrueGrows ==
    ASSUME NEW file, NEW on, NEW on2, TrueOn(file, on),
           \A id \in DOMAIN on :
              /\ id \in DOMAIN on2 /\ on2[id].kind = on[id].kind
              /\ on[id].by # NoKeys => on2[id].by # NoKeys
              /\ on2[id].oracle = on[id].oracle
    PROVE  TrueOn(file, on2)
<1>1. \A c \in Contract : file.contracts[c] # 0 => file.contracts[c] \in DOMAIN on
  BY DEF TrueOn
<1>2. file.initialized # {} => AllRecorded(file)
  BY DEF TrueOn
<1>3. \A c \in Contract : c \in file.initialized => file.contracts[c] \in DOMAIN on
  BY <1>1, <1>2 DEF AllRecorded
<1>4. "treasuryOracle" \in file.initialized => file.contracts["treasury"] \in DOMAIN on
  BY <1>3 DEF TrueOn, Contract
<1> QED
  BY <1>1, <1>3, <1>4 DEF TrueOn

(* The blank file claims nothing. *)
LEMMA BlankTrue == \A on : TrueOn(Blank, on)
  BY DEF TrueOn, Blank, AllRecorded

(* Every step keeps the file, and what the script knows, true of the chain. *)
LEMMA TruthStep ==
    DeployInv /\ [DeployNext]_deployVars =>
        TrueOn(saved', instances') /\ TrueOn(config', instances')
<1> SUFFICES ASSUME DeployInv, [DeployNext]_deployVars
             PROVE  TrueOn(saved', instances') /\ TrueOn(config', instances')
  OBVIOUS
<1>0. /\ TrueOn(saved, instances) /\ TrueOn(config, instances) /\ TypeInv /\ ScriptAhead
      /\ instances \in Seq(Instance) /\ saved \in DeployConfig /\ config \in DeployConfig
  BY DEF DeployInv, IsTrue, TypeInv, DeployTypeOK, ChainTypeOK
<1>1. CASE LoadDeployment \/ SaveDeployment \/ FundAccounts \/ AllDeployed \/ AllInitialized \/ Killed
           \/ MoveToNewMachine \/ GenerateKey \/ ProposeSetOracle \/ ApproveSetOracle
           \/ GrantMinterRole \/ UNCHANGED deployVars
  BY <1>0, <1>1, BlankTrue DEF LoadDeployment, SaveDeployment, FundAccounts, AllDeployed,
     AllInitialized, Killed, Exit, MoveToNewMachine, GenerateKey, ProposeSetOracle, ApproveSetOracle,
     GrantMinterRole, GrantAnswers, Asked, TokenRole, Skipped, Continue, chain, script, deployVars
<1>2. CASE GenerateIdentities
  <2> PICK c : c = [config EXCEPT !.publicKeys = keys]
    OBVIOUS
  <2>1. c.contracts = config.contracts /\ c.initialized = config.initialized
    BY <1>0 DEF DeployConfig
  <2>2. TrueOn(c, instances)
    BY <1>0, <2>1 DEF TrueOn, AllRecorded
  <2>3. config' = c /\ UNCHANGED <<saved, instances>>
    BY <1>2 DEF GenerateIdentities, Continue, chain
  <2> QED
    BY <1>0, <2>2, <2>3
<1>3. CASE DeployContract
  <2> PICK c : /\ c = First(Undeployed) /\ NewInstance(c)
               /\ \/ Continue("deploy", [config EXCEPT !.contracts[c] = Len(instances) + 1])
                  \/ Exit
    BY <1>3 DEF DeployContract
  <2>a. c \in Contract /\ config.contracts[c] = 0 /\ UNCHANGED saved
    BY <1>3, FirstMissing DEF DeployContract, Undeployed
  <2> PICK new : new = [kind |-> c, by |-> NoKeys, token |-> 0, oracle |-> 0]
    OBVIOUS
  <2>b. /\ instances' = Append(instances, new)
        /\ config' = [config EXCEPT !.contracts[c] = Len(instances) + 1] \/ config' = Blank
    BY DEF NewInstance, Continue, Exit
  <2>1. new \in Instance
    BY <2>a DEF Instance, NoKeys
  <2>2. /\ DOMAIN instances = 1..Len(instances) /\ Len(instances) \in Nat
        /\ DOMAIN instances' = 1..Len(instances) + 1
        /\ \A i \in 1..Len(instances) : instances'[i] = instances[i]
        /\ instances'[Len(instances) + 1] = new
    <3>1. /\ DOMAIN Append(instances, new) = 1..Len(instances) + 1
          /\ \A i \in 1..Len(instances) : Append(instances, new)[i] = instances[i]
          /\ Append(instances, new)[Len(instances) + 1] = new
      BY <1>0, <2>1, Appended
    <3> QED
      BY <1>0, <2>b, <3>1
  <2>3. TrueOn(saved, instances') /\ TrueOn(config, instances')
    <3> PICK on2 : on2 = instances'
      OBVIOUS
    <3>1. \A id \in DOMAIN instances : id \in DOMAIN on2 /\ on2[id] = instances[id]
      BY <2>2
    <3>2. TrueOn(saved, on2) /\ TrueOn(config, on2)
      BY <1>0, <3>1, TrueGrows
    <3> QED
      BY <3>2
  <2>4. CASE config' = [config EXCEPT !.contracts[c] = Len(instances) + 1]
    <3>1. /\ config'.initialized = config.initialized
          /\ config'.contracts[c] = Len(instances) + 1
          /\ \A d \in Contract \ {c} : config'.contracts[d] = config.contracts[d]
      <4>1. config'.contracts = [config.contracts EXCEPT ![c] = Len(instances) + 1]
            /\ config'.initialized = config.initialized
        BY <1>0, <2>4 DEF DeployConfig
      <4>2. config.contracts \in [Contract -> Id]
        BY <1>0 DEF DeployConfig
      <4> QED
        BY <2>a, <4>1, <4>2
    <3>2. config.initialized = {}
      BY <1>0, <2>a DEF TrueOn, AllRecorded
    <3>3. Len(instances) + 1 \in DOMAIN instances' /\ instances'[Len(instances) + 1].kind = c
      BY <2>2
    <3>4. \A d \in Contract : config'.contracts[d] # 0 =>
             /\ config'.contracts[d] \in DOMAIN instances'
             /\ instances'[config'.contracts[d]].kind = d
      BY <2>3, <3>1, <3>3 DEF TrueOn
    <3> QED
      BY <2>a, <2>3, <3>1, <3>2, <3>4 DEF TrueOn
  <2> QED
    BY <2>a, <2>b, <2>3, <2>4, BlankTrue
<1>4. CASE InitializeContract
  <2> PICK c, id :
        /\ c = First(Uninitialized) /\ id = config.contracts[c]
        /\ IF Fresh(id)
           THEN instances' = [instances EXCEPT ![id] = [@ EXCEPT !.by = config.publicKeys,
                   !.token = IF c = "treasury" THEN config.contracts["bobtToken"] ELSE 0]]
           ELSE UNCHANGED instances
        /\ \/ Continue("initialize", Flagged(c))
           \/ Exit
    BY <1>4 DEF InitializeContract
  <2>a. c \in Contract /\ UNCHANGED saved /\ (config' = Flagged(c) \/ config' = Blank)
    BY <1>4, FirstMissing DEF InitializeContract, Uninitialized, Continue, Exit
  <2>1. AllRecorded(config) /\ config.publicKeys # NoKeys /\ id \in DOMAIN instances
    BY <1>0, <1>4, <2>a DEF InitializeContract, At, ScriptAhead, TrueOn, AllRecorded, NoKeys, Identity
  <2>2. /\ \A i \in DOMAIN instances :
            /\ i \in DOMAIN instances' /\ instances'[i].kind = instances[i].kind
            /\ instances[i].by # NoKeys => instances'[i].by # NoKeys
            /\ instances'[i].oracle = instances[i].oracle
        /\ instances'[id].by # NoKeys
    <3>1. CASE instances[id].by # NoKeys
      BY <2>1, <3>1 DEF Fresh
    <3>2. CASE instances[id].by = NoKeys
      <4> PICK new : new = [instances[id] EXCEPT !.by = config.publicKeys,
                   !.token = IF c = "treasury" THEN config.contracts["bobtToken"] ELSE 0]
        OBVIOUS
      <4>1. instances[id] \in Instance
        BY <1>0, <2>1
      <4>2. new.kind = instances[id].kind /\ new.oracle = instances[id].oracle /\ new.by = config.publicKeys
        BY <4>1 DEF Instance
      <4>3. instances' = [instances EXCEPT ![id] = new]
        BY <3>2 DEF Fresh
      <4> QED
        BY <1>0, <2>1, <3>2, <4>2, <4>3
    <3> QED
      BY <3>1, <3>2
  <2>3. TrueOn(saved, instances') /\ TrueOn(config, instances')
    BY <1>0, <2>2, TrueGrows
  <2>4. TrueOn(Flagged(c), instances')
    <3>1. /\ Flagged(c).contracts = config.contracts
          /\ Flagged(c).initialized = config.initialized \cup {c}
      BY <1>0 DEF Flagged, DeployConfig
    <3> QED
      BY <2>a, <2>1, <2>2, <2>3, <3>1 DEF TrueOn, AllRecorded, Contract
  <2> QED
    BY <2>a, <2>3, <2>4, BlankTrue
<1>5. CASE ExecuteSetOracle
  <2>1. UNCHANGED saved /\ (UNCHANGED config \/ config' = Flagged("treasuryOracle"))
    BY <1>5 DEF ExecuteSetOracle, Skipped, Continue
  <2>2. CASE UNCHANGED <<instances, config>>
    BY <1>0, <2>1, <2>2
  <2>3. CASE ~UNCHANGED <<instances, config>>
    <3>1. /\ proposals[proposalId].target = config.contracts["oracle"]
          /\ AllRecorded(saved) /\ saved.contracts = config.contracts
          /\ Contract \subseteq config.initialized
      BY <1>5, <1>0 DEF ExecuteSetOracle, At, DeployInv, LinkedByVote, ScriptAhead
    <3> PICK id : id = config.contracts["treasury"]
      OBVIOUS
    <3>2. id \in DOMAIN instances /\ instances[id] \in Instance
      BY <1>0, <3>1 DEF TrueOn, AllRecorded, Contract
    <3> PICK new : new = [instances[id] EXCEPT !.oracle = config.contracts["oracle"]]
      OBVIOUS
    <3>3. instances' = [instances EXCEPT ![id] = new]
      BY <1>5, <2>3, <3>1 DEF ExecuteSetOracle, Treasury, Skipped, Continue
    <3>4. new.kind = instances[id].kind /\ new.by = instances[id].by /\ new.oracle = config.contracts["oracle"]
      BY <3>2 DEF Instance
    <3>5. \A f : TrueOn(f, instances) /\ f.contracts = config.contracts =>
             /\ f.initialized # {} => AllRecorded(f)
             /\ TrueOn(f, instances')
      <4>1. DOMAIN instances' = DOMAIN instances
        BY <1>0, <3>3
      <4>2. \A i \in DOMAIN instances : instances'[i].kind = instances[i].kind
                                       /\ instances'[i].by = instances[i].by
        BY <1>0, <3>2, <3>3, <3>4
      <4>3. instances'[id].oracle = config.contracts["oracle"]
        BY <1>0, <3>2, <3>3, <3>4
      <4>4. TAKE f
      <4>5. HAVE TrueOn(f, instances) /\ f.contracts = config.contracts
      <4>6. \A c \in Contract : f.contracts[c] # 0
        BY <3>1, <4>5 DEF AllRecorded
      <4> QED
        BY <4>1, <4>2, <4>3, <4>5, <4>6 DEF TrueOn, AllRecorded
    <3>6. TrueOn(saved, instances') /\ TrueOn(config, instances')
      BY <1>0, <3>1, <3>5
    <3>7. TrueOn(Flagged("treasuryOracle"), instances')
      <4>1. /\ Flagged("treasuryOracle").contracts = config.contracts
            /\ Flagged("treasuryOracle").initialized = config.initialized \cup {"treasuryOracle"}
        BY <1>0 DEF Flagged, DeployConfig
      <4>2. instances'[id].oracle = config.contracts["oracle"]
        BY <1>0, <3>2, <3>3, <3>4
      <4>3. "treasuryOracle" \notin Contract
        BY DEF Contract
      <4> QED
        BY <3>1, <3>6, <4>1, <4>2, <4>3 DEF TrueOn, AllRecorded
    <3> QED
      BY <2>1, <3>6, <3>7
  <2> QED
    BY <2>2, <2>3
<1> QED
  BY <1>1, <1>2, <1>3, <1>4, <1>5 DEF DeployNext

(* Every step keeps the script ahead of the file, and on one path. *)
LEMMA AheadStep == DeployInv /\ [DeployNext]_deployVars => ScriptAhead'
<1> SUFFICES ASSUME DeployInv, [DeployNext]_deployVars PROVE ScriptAhead'
  OBVIOUS
<1>0. /\ TrueOn(saved, instances) /\ TrueOn(config, instances) /\ ScriptAhead
      /\ written \in BOOLEAN /\ saved \in DeployConfig /\ config \in DeployConfig
  BY DEF DeployInv, IsTrue, TypeInv, DeployTypeOK
<1>1. CASE LoadDeployment \/ SaveDeployment \/ FundAccounts
  <2>1. CASE LoadDeployment
    BY <1>0, <2>1 DEF LoadDeployment, ScriptAhead
  <2>2. CASE SaveDeployment
    BY <1>0, <2>2 DEF SaveDeployment, ScriptAhead, AllRecorded, local
  <2>3. CASE FundAccounts
    BY <1>0, <2>3 DEF FundAccounts, ScriptAhead, At, local
  <2> QED
    BY <1>1, <2>1, <2>2, <2>3
<1>2. CASE Killed
  BY <1>2 DEF Killed, Exit, ScriptAhead
<1>3. CASE MoveToNewMachine \/ GenerateKey
  BY <1>0, <1>3 DEF MoveToNewMachine, GenerateKey, At, script, ScriptAhead
<1>4. CASE GenerateIdentities
  <2>1. /\ [config EXCEPT !.publicKeys = keys].publicKeys = keys
        /\ [config EXCEPT !.publicKeys = keys].contracts = config.contracts
        /\ [config EXCEPT !.publicKeys = keys].initialized = config.initialized
    BY <1>0 DEF DeployConfig
  <2> QED
    BY <1>0, <1>4, <2>1 DEF GenerateIdentities, Continue, At, local, ScriptAhead
<1>5. CASE DeployContract
  <2> PICK c : /\ c = First(Undeployed)
               /\ \/ Continue("deploy", [config EXCEPT !.contracts[c] = Len(instances) + 1])
                  \/ Exit
    BY <1>5 DEF DeployContract
  <2>a. /\ c \in Contract /\ config.contracts[c] = 0 /\ UNCHANGED <<saved, keys>>
        /\ At("deploy") /\ config = saved
    BY <1>0, <1>5, FirstMissing DEF DeployContract, Undeployed, local, At, ScriptAhead
  <2>1. CASE Exit
    BY <2>1 DEF Exit, ScriptAhead
  <2>2. CASE Continue("deploy", [config EXCEPT !.contracts[c] = Len(instances) + 1])
    <3> PICK f : f = [config EXCEPT !.contracts[c] = Len(instances) + 1]
      OBVIOUS
    <3>1. /\ f.contracts = [config.contracts EXCEPT ![c] = Len(instances) + 1]
          /\ f.publicKeys = config.publicKeys /\ f.initialized = config.initialized
          /\ config.contracts \in [Contract -> Id]
      BY <1>0 DEF DeployConfig
    <3>2. config' = f /\ pc' = "deploy" /\ written' = FALSE
      BY <2>2 DEF Continue
    <3>3. \A d \in Contract : saved.contracts[d] # 0 => f.contracts[d] = saved.contracts[d]
      BY <2>a, <3>1
    <3> QED
      BY <1>0, <2>a, <3>1, <3>2, <3>3 DEF ScriptAhead, At
  <2> QED
    BY <2>1, <2>2
<1>6. CASE AllDeployed
  <2>1. AllRecorded(config)
    BY <1>6 DEF AllDeployed, Undeployed, AllRecorded
  <2> QED
    BY <1>0, <1>6, <2>1 DEF AllDeployed, At, chain, local, ScriptAhead
<1>7. CASE InitializeContract \/ ExecuteSetOracle
  <2>1. PICK c : /\ c \in Contract \cup {"treasuryOracle"}
                 /\ \/ Continue("initialize", Flagged(c)) /\ pc = "initialize"
                    \/ Continue("grant", Flagged(c)) /\ pc = "execute"
                    \/ Skipped /\ pc = "execute"
                    \/ Exit
    <3>1. CASE InitializeContract
      <4>1. First(Uninitialized) \in Contract
        BY <3>1, FirstMissing DEF InitializeContract, Uninitialized
      <4> QED
        BY <3>1, <4>1 DEF InitializeContract, At
    <3>2. CASE ExecuteSetOracle
      BY <3>2 DEF ExecuteSetOracle, At
    <3> QED
      BY <1>7, <3>1, <3>2
  <2>2. UNCHANGED <<saved, keys>>
    BY <1>7 DEF InitializeContract, ExecuteSetOracle, local
  <2>3. CASE Exit
    BY <2>3 DEF Exit, ScriptAhead
  <2>4. CASE ~Exit
    <3>1. /\ Flagged(c).contracts = config.contracts
          /\ Flagged(c).publicKeys = config.publicKeys
          /\ Flagged(c).initialized = config.initialized \cup {c}
      BY <1>0 DEF Flagged, DeployConfig
    <3> QED
      BY <1>0, <2>1, <2>2, <2>4, <3>1 DEF Continue, Skipped, ScriptAhead
  <2> QED
    BY <2>3, <2>4
<1>8. CASE AllInitialized
  <2>1. Contract \subseteq config.initialized
    BY <1>8 DEF AllInitialized, Uninitialized
  <2>2. pc = "initialize" /\ pc' \in {"grant", "propose"} /\ UNCHANGED <<saved, config, written, keys>>
    BY <1>8 DEF AllInitialized, At, local
  <2> QED
    BY <1>0, <2>1, <2>2 DEF ScriptAhead
<1>9. CASE ProposeSetOracle \/ ApproveSetOracle
  BY <1>0, <1>9 DEF ProposeSetOracle, ApproveSetOracle, Skipped, Continue, At, local, ScriptAhead
<1>10. CASE GrantMinterRole
  BY <1>0, <1>10, GrantRefused DEF local, ScriptAhead
<1>11. CASE UNCHANGED deployVars
  BY <1>0, <1>11 DEF deployVars, script, local, ScriptAhead
<1> QED
  BY <1>1, <1>2, <1>3, <1>4, <1>5, <1>6, <1>7, <1>8, <1>9, <1>10, <1>11 DEF DeployNext

(* The first machine's keys, once made, and the recorded addresses, stay. *)
LEMMA RecordStep ==
    DeployInv /\ [DeployNext]_deployVars =>
        /\ \A c \in Contract : saved.contracts[c] # 0 => saved'.contracts[c] = saved.contracts[c]
        /\ AllRecorded(saved) => saved'.contracts = saved.contracts
        /\ machine' = 1 => machine = 1 /\ \A i \in Identity : keys[i] # 0 => keys'[i] = keys[i]
<1> SUFFICES ASSUME DeployInv, [DeployNext]_deployVars
             PROVE  /\ \A c \in Contract : saved.contracts[c] # 0 => saved'.contracts[c] = saved.contracts[c]
                    /\ AllRecorded(saved) => saved'.contracts = saved.contracts
                    /\ machine' = 1 => machine = 1 /\ \A i \in Identity : keys[i] # 0 => keys'[i] = keys[i]
  OBVIOUS
<1>0. /\ ScriptAhead /\ saved \in DeployConfig /\ config \in DeployConfig
      /\ machine \in 1..MaxMachines /\ MaxMachines \in Nat /\ keys \in [Identity -> 0..machine]
  BY DeploymentAssumption DEF DeployInv, TypeInv, DeployTypeOK
<1>1. UNCHANGED saved \/ (saved' = config /\ pc # "off")
  BY <1>0 DEF DeployNext, LoadDeployment, SaveDeployment, Killed, MoveToNewMachine,
     GenerateKey, GenerateIdentities, FundAccounts, DeployContract, AllDeployed,
     InitializeContract, AllInitialized, ProposeSetOracle, ApproveSetOracle,
     ExecuteSetOracle, GrantMinterRole, deployVars, ScriptAhead
<1>2. \A c \in Contract : saved.contracts[c] # 0 => saved'.contracts[c] = saved.contracts[c]
  BY <1>0, <1>1 DEF ScriptAhead
<1>3. AllRecorded(saved) => saved'.contracts = saved.contracts
  <2>1. saved.contracts \in [Contract -> Id] /\ config.contracts \in [Contract -> Id]
    BY <1>0 DEF DeployConfig
  <2> QED
    BY <1>1, <1>2, <2>1 DEF AllRecorded
<1>4. machine' = 1 => machine = 1 /\ \A i \in Identity : keys[i] # 0 => keys'[i] = keys[i]
  <2>1. CASE MoveToNewMachine
    BY <1>0, <2>1 DEF MoveToNewMachine
  <2>2. CASE GenerateKey
    BY <1>0, <2>2 DEF GenerateKey
  <2>3. CASE ~MoveToNewMachine /\ ~GenerateKey
    <3>1. UNCHANGED <<machine, keys>>
      BY <2>3 DEF DeployNext, LoadDeployment, SaveDeployment, Killed,
     GenerateIdentities, FundAccounts, DeployContract, AllDeployed,
     InitializeContract, AllInitialized, ProposeSetOracle, ApproveSetOracle,
     ExecuteSetOracle, GrantMinterRole, deployVars, local
    <3> QED
      BY <3>1
  <2> QED
    BY <2>1, <2>2, <2>3
<1> QED
  BY <1>2, <1>3, <1>4

(* Keys on record stay complete and, on the first machine, those at hand. *)
LEMMA KeysStep == DeployInv /\ [DeployNext]_deployVars => KeysTrue(saved)' /\ KeysTrue(config)'
<1> SUFFICES ASSUME DeployInv, [DeployNext]_deployVars
             PROVE  KeysTrue(saved)' /\ KeysTrue(config)'
  OBVIOUS
<1>0. /\ KeysTrue(saved) /\ KeysTrue(config) /\ ScriptAhead
      /\ saved \in DeployConfig /\ config \in DeployConfig
      /\ machine \in 1..MaxMachines /\ MaxMachines \in Nat /\ keys \in [Identity -> 0..machine]
  BY DeploymentAssumption DEF DeployInv, TypeInv, DeployTypeOK
<1>1. CASE GenerateIdentities
  <2>1. [config EXCEPT !.publicKeys = keys].publicKeys = keys
    BY <1>0 DEF DeployConfig
  <2> QED
    BY <1>0, <1>1, <2>1 DEF GenerateIdentities, Continue, local, KeysTrue
<1>2. CASE ~GenerateIdentities
  <2>1. /\ saved' \in {saved, config}
        /\ config'.publicKeys \in {saved.publicKeys, config.publicKeys, NoKeys}
    <3>1. CASE DeployContract
      <4> PICK c, f : /\ f = [config EXCEPT !.contracts[c] = Len(instances) + 1]
                      /\ Continue("deploy", f) \/ Exit
        BY <3>1 DEF DeployContract
      <4>1. f.publicKeys = config.publicKeys
        BY <1>0 DEF DeployConfig
      <4>2. config' = f \/ config' = Blank
        BY DEF Continue, Exit
      <4>3. saved' = saved
        BY <3>1 DEF DeployContract
      <4>4. Blank.publicKeys = NoKeys
        BY DEF Blank
      <4> QED
        BY <4>1, <4>2, <4>3, <4>4
    <3>2. CASE InitializeContract
      <4>1. \A c : Flagged(c).publicKeys = config.publicKeys
        BY <1>0 DEF Flagged, DeployConfig
      <4> QED
        BY <3>2, <4>1 DEF InitializeContract, Continue, Exit, Blank
    <3>3. CASE ExecuteSetOracle
      <4>1. \A c : Flagged(c).publicKeys = config.publicKeys
        BY <1>0 DEF Flagged, DeployConfig
      <4> QED
        BY <3>3, <4>1 DEF ExecuteSetOracle, Continue, Skipped
    <3>4. CASE LoadDeployment \/ SaveDeployment \/ Killed \/ MoveToNewMachine \/ GenerateKey
               \/ FundAccounts \/ AllDeployed \/ AllInitialized \/ ProposeSetOracle
               \/ ApproveSetOracle \/ GrantMinterRole \/ UNCHANGED deployVars
      BY <3>4, GrantRefused DEF LoadDeployment, SaveDeployment, Killed, Exit, Blank, MoveToNewMachine,
         GenerateKey, FundAccounts, AllDeployed, AllInitialized, ProposeSetOracle,
         ApproveSetOracle, Continue, Skipped, script, deployVars
    <3> QED
      BY <1>2, <3>1, <3>2, <3>3, <3>4 DEF DeployNext
  <2>2. \A f \in {saved, config} : f.publicKeys # NoKeys =>
           /\ \A i \in Identity : f.publicKeys[i] # 0
           /\ machine' = 1 => f.publicKeys = keys'
    <3> TAKE f \in {saved, config}
    <3>1. CASE machine' = 1 /\ f.publicKeys # NoKeys
      <4>1. machine = 1 /\ f.publicKeys = keys /\ \A i \in Identity : keys[i] # 0
        BY <1>0, <3>1, RecordStep DEF KeysTrue
      <4>2. keys' = keys
        <5>1. \A i \in Identity : keys'[i] = keys[i]
          BY <3>1, <4>1, RecordStep
        <5>2. keys' \in [Identity -> 0..machine']
          BY DeployTypeStep DEF TypeInv, DeployTypeOK
        <5> QED
          BY <1>0, <5>1, <5>2
      <4> QED
        BY <4>1, <4>2
    <3> QED
      BY <1>0, <3>1 DEF KeysTrue
  <2> QED
    BY <2>1, <2>2 DEF KeysTrue
<1> QED
  BY <1>1, <1>2

\* What a step may do to a contract, and to which: nothing, create it, give it
\* the keys and links of the file, or link it to the recorded oracle by proposal.
Kept(id) == id \in DOMAIN instances /\ instances'[id] = instances[id]

New(id) == instances'[id].by = NoKeys /\ instances'[id].oracle = 0

TookKeys(id) ==
    /\ pc = "initialize" /\ written
    /\ id \in DOMAIN instances
    /\ \E c \in Contract :
          /\ id = config.contracts[c]
          /\ instances'[id].token = IF c = "treasury" THEN config.contracts["bobtToken"] ELSE 0
    /\ instances'[id].kind = instances[id].kind
    /\ instances'[id].by = config.publicKeys
    /\ instances'[id].oracle = instances[id].oracle

Linked(id) ==
    /\ ExecuteSetOracle /\ id = config.contracts["treasury"]
    /\ id \in DOMAIN instances
    /\ instances'[id].kind = instances[id].kind
    /\ instances'[id].by = instances[id].by
    /\ instances'[id].token = instances[id].token
    /\ proposals' = [proposals EXCEPT ![proposalId] = [@ EXCEPT !.executed = TRUE]]

(* Every contract is kept, new, initialized or linked by a step. *)
LEMMA ChainStep ==
    DeployInv /\ [DeployNext]_deployVars =>
        \A id \in DOMAIN instances' : Kept(id) \/ New(id) \/ TookKeys(id) \/ Linked(id)
<1> SUFFICES ASSUME DeployInv, [DeployNext]_deployVars
             PROVE  \A id \in DOMAIN instances' : Kept(id) \/ New(id) \/ TookKeys(id) \/ Linked(id)
  OBVIOUS
<1>0. /\ TrueOn(config, instances) /\ ScriptAhead
      /\ instances \in Seq(Instance) /\ config \in DeployConfig
  BY DEF DeployInv, IsTrue, TypeInv, DeployTypeOK, ChainTypeOK
<1>1. CASE UNCHANGED instances
  BY <1>1 DEF Kept
<1>2. CASE DeployContract
  <2> PICK c \in Contract : NewInstance(c)
    BY <1>2, FirstMissing DEF DeployContract, Undeployed
  <2> PICK new : new = [kind |-> c, by |-> NoKeys, token |-> 0, oracle |-> 0]
    OBVIOUS
  <2>1. new \in Instance /\ new.by = NoKeys /\ new.oracle = 0
    BY DEF Instance, NoKeys
  <2>2. instances' = Append(instances, new)
    BY DEF NewInstance
  <2>3. /\ DOMAIN Append(instances, new) = 1..Len(instances) + 1
        /\ \A i \in 1..Len(instances) : Append(instances, new)[i] = instances[i]
        /\ Append(instances, new)[Len(instances) + 1] = new
        /\ DOMAIN instances = 1..Len(instances) /\ Len(instances) \in Nat
    BY <1>0, <2>1, Appended
  <2>4. \A id \in DOMAIN instances' : id \in 1..Len(instances) \/ id = Len(instances) + 1
    BY <2>2, <2>3
  <2> QED
    BY <2>1, <2>2, <2>3, <2>4 DEF Kept, New
<1>3. CASE InitializeContract /\ ~UNCHANGED instances
  <2> PICK c, id :
        /\ c = First(Uninitialized) /\ id = config.contracts[c]
        /\ instances' = [instances EXCEPT ![id] = [@ EXCEPT !.by = config.publicKeys,
                   !.token = IF c = "treasury" THEN config.contracts["bobtToken"] ELSE 0]]
    BY <1>3 DEF InitializeContract
  <2>a. c \in Contract
    BY <1>3, FirstMissing DEF InitializeContract, Uninitialized
  <2>1. /\ pc = "initialize" /\ written /\ AllRecorded(config) /\ id \in DOMAIN instances
    BY <1>0, <1>3, <2>a DEF InitializeContract, At, ScriptAhead, TrueOn, AllRecorded
  <2> PICK new : new = [instances[id] EXCEPT !.by = config.publicKeys,
                   !.token = IF c = "treasury" THEN config.contracts["bobtToken"] ELSE 0]
    OBVIOUS
  <2>2. instances[id] \in Instance
    BY <1>0, <2>1
  <2>3. new.kind = instances[id].kind /\ new.oracle = instances[id].oracle /\ new.by = config.publicKeys
        /\ new.token = IF c = "treasury" THEN config.contracts["bobtToken"] ELSE 0
    BY <2>2 DEF Instance
  <2>4. instances' = [instances EXCEPT ![id] = new]
    OBVIOUS
  <2>5. /\ DOMAIN instances' = DOMAIN instances /\ instances'[id] = new
        /\ \A i \in DOMAIN instances : i # id => instances'[i] = instances[i]
    BY <1>0, <2>1, <2>4
  <2>6. TookKeys(id)
    <3>1. \E d \in Contract :
             /\ id = config.contracts[d]
             /\ instances'[id].token = IF d = "treasury" THEN config.contracts["bobtToken"] ELSE 0
      BY <2>a, <2>3, <2>5
    <3> QED
      BY <2>1, <2>3, <2>5, <3>1 DEF TookKeys
  <2> QED
    BY <2>5, <2>6 DEF Kept
<1>4. CASE ExecuteSetOracle /\ ~UNCHANGED instances
  <2> PICK id, target : /\ id = config.contracts["treasury"] /\ target = proposals[proposalId].target
    OBVIOUS
  <2>1. id \in DOMAIN instances /\ instances[id] \in Instance
    BY <1>0, <1>4 DEF ExecuteSetOracle, At, ScriptAhead, TrueOn, AllRecorded, Contract
  <2> PICK new : new = [instances[id] EXCEPT !.oracle = target]
    OBVIOUS
  <2>2. new.kind = instances[id].kind /\ new.by = instances[id].by /\ new.token = instances[id].token
    BY <2>1 DEF Instance
  <2>3. /\ instances' = [instances EXCEPT ![id] = new]
        /\ proposals' = [proposals EXCEPT ![proposalId] = [@ EXCEPT !.executed = TRUE]]
    BY <1>4 DEF ExecuteSetOracle, Treasury
  <2>4. /\ DOMAIN instances' = DOMAIN instances /\ instances'[id] = new
        /\ \A i \in DOMAIN instances : i # id => instances'[i] = instances[i]
    BY <1>0, <2>1, <2>3
  <2>5. Linked(id)
    BY <1>4, <2>1, <2>2, <2>3, <2>4 DEF Linked
  <2> QED
    BY <2>4, <2>5 DEF Kept
<1> QED
  BY <1>1, <1>2, <1>3, <1>4 DEF DeployNext, LoadDeployment, SaveDeployment, Killed,
     MoveToNewMachine, GenerateKey, GenerateIdentities, FundAccounts, AllDeployed, AllInitialized,
     ProposeSetOracle, ApproveSetOracle, GrantMinterRole, chain, deployVars

(* A contract's keys and links stay what the file gave it. *)
LEMMA OnceStep == DeployInv /\ [DeployNext]_deployVars => InitializedOnce'
<1> SUFFICES ASSUME DeployInv, [DeployNext]_deployVars, NEW id \in DOMAIN instances',
                    instances'[id].by # NoKeys
             PROVE  /\ AllRecorded(saved')
                    /\ id = saved'.contracts[instances'[id].kind]
                    /\ instances'[id].kind = "treasury" => instances'[id].token = saved'.contracts["bobtToken"]
                    /\ \A i \in Identity : instances'[id].by[i] # 0
                    /\ machine' = 1 => instances'[id].by = keys'
  BY DEF InitializedOnce, Fresh, AllRecorded
<1>0. /\ TrueOn(config, instances) /\ ScriptAhead /\ InitializedOnce
      /\ keys \in [Identity -> 0..machine] /\ keys' \in [Identity -> 0..machine']
      /\ instances \in Seq(Instance)
  BY DeployTypeStep DEF DeployInv, IsTrue, TypeInv, DeployTypeOK, ChainTypeOK
<1>1. AllRecorded(saved) => AllRecorded(saved') /\ saved'.contracts = saved.contracts
  BY RecordStep DEF AllRecorded
<1>2. machine' = 1 /\ (\A i \in Identity : keys[i] # 0) => keys' = keys /\ machine = 1
  <2>1. machine' = 1 /\ (\A i \in Identity : keys[i] # 0) =>
           machine = 1 /\ \A i \in Identity : keys'[i] = keys[i]
    BY RecordStep
  <2> QED
    BY <1>0, <2>1
<1>3. CASE TookKeys(id)
  <2>1. /\ config = saved /\ AllRecorded(saved)
        /\ config.publicKeys = keys /\ \A i \in Identity : keys[i] # 0
    BY <1>0, <1>3 DEF TookKeys, ScriptAhead
  <2>2. PICK c \in Contract : /\ id = saved.contracts[c]
          /\ instances'[id].token = IF c = "treasury" THEN saved.contracts["bobtToken"] ELSE 0
    BY <1>3, <2>1 DEF TookKeys
  <2>3. instances[id].kind = c
    BY <1>0, <2>1, <2>2 DEF TrueOn, AllRecorded
  <2>4. instances'[id].by = keys /\ instances'[id].kind = instances[id].kind
    BY <1>3, <2>1 DEF TookKeys
  <2> QED
    BY <1>1, <1>2, <2>1, <2>2, <2>3, <2>4
<1>4. CASE Kept(id) \/ Linked(id)
  <2>1. /\ id \in DOMAIN instances
        /\ instances'[id].kind = instances[id].kind
        /\ instances'[id].by = instances[id].by
        /\ instances'[id].token = instances[id].token
    BY <1>4 DEF Kept, Linked
  <2>2. /\ AllRecorded(saved)
        /\ id = saved.contracts[instances[id].kind]
        /\ instances[id].kind = "treasury" => instances[id].token = saved.contracts["bobtToken"]
        /\ \A i \in Identity : instances[id].by[i] # 0
        /\ machine = 1 => instances[id].by = keys
    BY <1>0, <2>1 DEF InitializedOnce, Fresh
  <2>3. machine' = 1 => machine = 1 /\ keys' = keys
    <3>1. machine' = 1 => machine = 1
      BY RecordStep
    <3> QED
      BY <1>2, <2>2, <3>1
  <2> QED
    BY <1>1, <2>1, <2>2, <2>3
<1> QED
  BY <1>3, <1>4, ChainStep DEF New

(* A link stays backed by its proposal, and the one under way stays as made. *)
LEMMA VoteStep == DeployInv /\ [DeployNext]_deployVars => LinkedByVote'
<1> SUFFICES ASSUME DeployInv, [DeployNext]_deployVars PROVE LinkedByVote'
  OBVIOUS
<1>0. /\ LinkedByVote /\ ScriptAhead /\ proposals \in Seq(Proposal) /\ config \in DeployConfig
  BY DEF DeployInv, TypeInv, ChainTypeOK, DeployTypeOK
<1> DEFINE Backed(id, ps) == \E p \in DOMAIN ps : ps[p].treasury = id /\ ps[p].approved /\ ps[p].executed
\* A proposal that was approved and executed stands.
<1>1. \A id : Backed(id, proposals) => Backed(id, proposals')
  <2> SUFFICES ASSUME NEW id, NEW p \in DOMAIN proposals,
                      proposals[p].treasury = id, proposals[p].approved, proposals[p].executed
               PROVE  p \in DOMAIN proposals' /\ proposals'[p] = proposals[p]
    OBVIOUS
  <2>1. CASE UNCHANGED proposals
    BY <2>1
  <2>2. CASE ProposeSetOracle /\ ~UNCHANGED proposals
    <3> PICK new : new = [treasury |-> Treasury, approved |-> FALSE,
                          target |-> config.contracts["oracle"], executed |-> FALSE]
      OBVIOUS
    <3>1. proposals' = Append(proposals, new)
      BY <2>2 DEF ProposeSetOracle
    <3>2. new \in Proposal
      BY <1>0 DEF Proposal, Treasury, DeployConfig, Contract, Id
    <3>3. /\ DOMAIN Append(proposals, new) = 1..Len(proposals) + 1
          /\ \A i \in 1..Len(proposals) : Append(proposals, new)[i] = proposals[i]
      BY <1>0, <3>2, Appended
    <3> QED
      BY <1>0, <3>1, <3>3
  <2>3. CASE ApproveSetOracle \/ ExecuteSetOracle
    <3>1. proposalId # p
      BY <1>0, <2>3 DEF ApproveSetOracle, ExecuteSetOracle, At, LinkedByVote
    <3>2. PICK new : UNCHANGED proposals \/ proposals' = [proposals EXCEPT ![proposalId] = new]
      BY <2>3 DEF ApproveSetOracle, ExecuteSetOracle
    <3> QED
      BY <1>0, <3>1, <3>2
  <2> QED
    BY <2>1, <2>2, <2>3 DEF DeployNext, LoadDeployment, SaveDeployment, Killed,
       MoveToNewMachine, GenerateKey, GenerateIdentities, FundAccounts, DeployContract, AllDeployed,
       InitializeContract, AllInitialized, GrantMinterRole, chain, deployVars
<1>2. ASSUME NEW id \in DOMAIN instances', instances'[id].oracle # 0
      PROVE  Backed(id, proposals')
  <2>1. CASE Linked(id)
    <3>1. /\ proposalId \in DOMAIN proposals /\ proposals[proposalId].treasury = id
          /\ proposals[proposalId].approved
      BY <1>0, <2>1 DEF Linked, LinkedByVote, ExecuteSetOracle, At
    <3> PICK new : new = [proposals[proposalId] EXCEPT !.executed = TRUE]
      OBVIOUS
    <3>2. proposals[proposalId] \in Proposal
      BY <1>0, <3>1
    <3>3. new.treasury = id /\ new.approved /\ new.executed
      BY <3>1, <3>2 DEF Proposal
    <3>4. proposals' = [proposals EXCEPT ![proposalId] = new]
      BY <2>1 DEF Linked
    <3>5. DOMAIN proposals' = DOMAIN proposals /\ proposals'[proposalId] = new
      BY <1>0, <3>1, <3>4
    <3> QED
      BY <3>1, <3>3, <3>5
  <2>2. CASE Kept(id) \/ TookKeys(id)
    <3>1. id \in DOMAIN instances /\ instances[id].oracle # 0
      BY <1>2, <2>2 DEF Kept, TookKeys
    <3>2. Backed(id, proposals)
      BY <1>0, <3>1 DEF LinkedByVote
    <3> QED
      BY <1>1, <3>2
  <2> QED
    BY <1>2, <2>1, <2>2, ChainStep DEF New
<1>3. CASE ProposeSetOracle /\ pc' = "approve"
  <2> PICK new : new = [treasury |-> Treasury, approved |-> FALSE,
                        target |-> config.contracts["oracle"], executed |-> FALSE]
    OBVIOUS
  <2>1. /\ proposals' = Append(proposals, new) /\ proposalId' = Len(proposals) + 1
        /\ config' = config
    BY <1>3 DEF ProposeSetOracle, Skipped, Continue
  <2>2. new \in Proposal
    BY <1>0 DEF Proposal, Treasury, DeployConfig, Contract, Id
  <2>3. /\ DOMAIN Append(proposals, new) = 1..Len(proposals) + 1
        /\ Append(proposals, new)[Len(proposals) + 1] = new
        /\ Len(proposals) \in Nat
    BY <1>0, <2>2, Appended
  <2>4. /\ proposalId' \in DOMAIN proposals' /\ proposals'[proposalId'] = new
    BY <2>1, <2>3
  <2>5. ~new.executed /\ new.treasury = config'.contracts["treasury"] /\ new.target = config'.contracts["oracle"]
    BY <2>1 DEF Treasury
  <2> QED
    BY <1>2, <1>3, <2>4, <2>5 DEF LinkedByVote
<1>4. CASE ApproveSetOracle /\ pc' = "execute"
  <2>1. /\ UNCHANGED <<config, proposalId>> /\ Signs("treasurySigner2")
        /\ proposals' = [proposals EXCEPT ![proposalId] = [@ EXCEPT !.approved = Signs("treasurySigner2")]]
    BY <1>4 DEF ApproveSetOracle, Skipped, Continue
  <2>2. /\ proposalId \in DOMAIN proposals /\ proposals[proposalId] \in Proposal
        /\ ~proposals[proposalId].executed
        /\ proposals[proposalId].treasury = config.contracts["treasury"]
        /\ proposals[proposalId].target = config.contracts["oracle"]
    BY <1>0, <1>4 DEF ApproveSetOracle, At, LinkedByVote
  <2> PICK new : new = [proposals[proposalId] EXCEPT !.approved = Signs("treasurySigner2")]
    OBVIOUS
  <2>3. /\ new.treasury = proposals[proposalId].treasury /\ new.target = proposals[proposalId].target
        /\ ~new.executed /\ new.approved
    BY <2>1, <2>2 DEF Proposal
  <2>4. proposalId' \in DOMAIN proposals' /\ proposals'[proposalId'] = new
    BY <1>0, <2>1, <2>2
  <2> QED
    BY <1>2, <2>1, <2>2, <2>3, <2>4, <1>4 DEF LinkedByVote
<1>5. CASE pc' \notin {"approve", "execute"}
  BY <1>2, <1>5 DEF LinkedByVote
<1>6. CASE UNCHANGED <<pc, proposalId, proposals>> /\ config'.contracts = config.contracts
  BY <1>0, <1>2, <1>6 DEF LinkedByVote
<1>7. \/ ProposeSetOracle /\ pc' = "approve"
      \/ ApproveSetOracle /\ pc' = "execute"
      \/ pc' \notin {"approve", "execute"}
      \/ UNCHANGED <<pc, proposalId, proposals, config>>
  <2>1. CASE ProposeSetOracle \/ ApproveSetOracle
    BY <2>1 DEF ProposeSetOracle, ApproveSetOracle, Skipped, Continue
  <2>2. CASE LoadDeployment \/ Killed \/ GenerateIdentities \/ FundAccounts \/ DeployContract
             \/ AllDeployed \/ InitializeContract \/ AllInitialized \/ ExecuteSetOracle \/ GrantMinterRole
    BY <2>2 DEF LoadDeployment, Killed, Exit, GenerateIdentities, FundAccounts, DeployContract,
       AllDeployed, InitializeContract, AllInitialized, ExecuteSetOracle, GrantMinterRole, Skipped, Continue
  <2>3. CASE SaveDeployment \/ MoveToNewMachine \/ GenerateKey \/ UNCHANGED deployVars
    BY <2>3 DEF SaveDeployment, MoveToNewMachine, GenerateKey, script, chain, deployVars
  <2> QED
    BY <2>1, <2>2, <2>3 DEF DeployNext
<1> QED
  BY <1>3, <1>4, <1>5, <1>6, <1>7

-----------------------------------------------------------------------------
(* The strengthened invariant, which the theorems below take parts of. *)
THEOREM DeployInvariant == DeploySpec => []DeployInv
<1>1. DeployInv /\ [DeployNext]_deployVars => DeployInv'
  BY DeployTypeStep, TruthStep, KeysStep, AheadStep, OnceStep, VoteStep DEF DeployInv, IsTrue
<1> QED
  BY <1>1, DeployInvInit, PTL DEF DeploySpec

(* main (deploy.ts:411-573): every value keeps its type, and the file never   *)
(* names a contract or a proposal beyond those there are.                   *)
THEOREM DeployTypeCorrect == DeploySpec => []DeployTypeOK
<1>1. DeployInv => DeployTypeOK
  BY DEF DeployInv, TypeInv
<1> QED
  BY <1>1, DeployInvariant, PTL

(* saveDeployment (deploy.ts:133-141) after every step of main: what the     *)
(* file records has happened on chain, to the contracts it names, wherever  *)
(* earlier runs were killed or refused.                                     *)
THEOREM DeployFileIsTrue == DeploySpec => []FileIsTrue
<1>1. DeployInv => FileIsTrue
  <2> SUFFICES ASSUME DeployInv PROVE FileIsTrue
    OBVIOUS
  <2>1. TrueOn(saved, instances) /\ InitializedOnce
    BY DEF DeployInv, IsTrue
  <2>2. "treasury" \in saved.initialized =>
           instances[saved.contracts["treasury"]].token = saved.contracts["bobtToken"]
    <3>1. "treasury" \in Contract
      BY DEF Contract
    <3> QED
      BY <2>1, <3>1 DEF TrueOn, InitializedOnce, AllRecorded, Fresh
  <2> QED
    BY <2>1, <2>2 DEF FileIsTrue, TrueOn, AllRecorded
<1> QED
  BY <1>1, DeployInvariant, PTL

(* deployContract behind its check (deploy.ts:453-490): a recorded address   *)
(* is never replaced.                                                       *)
THEOREM DeployRecordStays == DeploySpec => RecordStays
  BY DeployInvariant, RecordStep, PTL DEF DeploySpec, RecordStays

(* generateIdentities and the initialize calls (deploy.ts:147-169, 224-316), *)
(* with status.ts:46-128: on one machine the contracts answer to the keys   *)
(* the team has, and the updater gets the operator's.                       *)
THEOREM DeployKeysStillTheirs == DeploySpec => []KeysStillTheirs
<1>1. DeployInv => KeysStillTheirs
  <2> SUFFICES ASSUME DeployInv, machine = 1
               PROVE  /\ \A id \in DOMAIN instances : ~Fresh(id) => instances[id].by = keys
                      /\ UpdaterConfigured /\ "oracle" \in saved.initialized =>
                            instances[saved.contracts["oracle"]].by["oracleOperator"] = keys["oracleOperator"]
    BY DEF KeysStillTheirs
  <2>1. \A id \in DOMAIN instances : ~Fresh(id) => instances[id].by = keys
    BY DEF DeployInv, InitializedOnce
  <2>2. "oracle" \in saved.initialized =>
           saved.contracts["oracle"] \in DOMAIN instances /\ ~Fresh(saved.contracts["oracle"])
    <3>1. "oracle" \in Contract
      BY DEF Contract
    <3> QED
      BY <3>1 DEF DeployInv, IsTrue, TrueOn, AllRecorded, Fresh
  <2> QED
    BY <2>1, <2>2
<1> QED
  BY <1>1, DeployInvariant, PTL

(* configureOracleInTreasury (deploy.ts:318-375) and the end of main         *)
(* (526-573): an oracle is linked only by an approved and executed          *)
(* proposal, and a completed run leaves three initialized contracts.        *)
THEOREM DeployCompleteIsWired == DeploySpec => []CompleteIsWired
<1>1. DeployInv => CompleteIsWired
  BY DEF DeployInv, ScriptAhead, LinkedByVote, CompleteIsWired, Complete
<1> QED
  BY <1>1, DeployInvariant, PTL
=============================================================================
