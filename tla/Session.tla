------------------------------ MODULE Session ------------------------------
(***************************************************************************)
(* The wallet session that the pages of the web application share          *)
(* (wallet-provider.tsx): restored from the browser's storage when the     *)
(* application loads, opened by the user, closed, and opened again while   *)
(* earlier calls of the wallet extension are still under way.              *)
(***************************************************************************)
CONSTANTS Account

\* No account.
None == "none"

\* The list of installed wallets is being asked for: nothing to restore yet.
Listing == "listing"

ASSUME SessionAssumption == None \notin Account /\ Listing \notin Account

VARIABLES
    active,             \* the account the wallet extension would answer with
    publicKey,          \* the account connected, for the pages
    stored,             \* the account in the browser's storage
    restoring,          \* the stored account the extension is asked to confirm
    connecting          \* a connection the user has asked for is under way

sessionVars == <<active, publicKey, stored, restoring, connecting>>

SessionInit ==
    /\ active \in Account
    /\ stored \in Account \cup {None}
    /\ publicKey = None
    /\ restoring = Listing /\ connecting = FALSE

\* Once the wallets are listed, a stored session is checked.
GetSupportedWallets ==
    /\ restoring = Listing
    /\ restoring' = stored
    /\ UNCHANGED <<active, publicKey, stored, connecting>>

\* The extension confirms the stored account, or the storage is cleared: also
\* when the user has connected another account in the meantime.
RestoreSession ==
    /\ restoring \in Account
    /\ \/ active = restoring /\ publicKey' = restoring /\ UNCHANGED stored
       \/ stored' = None /\ UNCHANGED publicKey
    /\ restoring' = None
    /\ UNCHANGED <<active, connecting>>

\* The wallet button and its list of wallets, of which one at a time is asked.
\* The button waits while the session is loading, the pages' own do not.
ConnectButton == publicKey = None /\ ~connecting

ConnectWallet ==
    /\ ConnectButton
    /\ connecting' = TRUE
    /\ UNCHANGED <<active, publicKey, stored, restoring>>

\* The user accepts, or refuses.
WalletAnswers ==
    /\ connecting
    /\ \/ publicKey' = active /\ stored' = active
       \/ UNCHANGED <<publicKey, stored>>
    /\ connecting' = FALSE
    /\ UNCHANGED <<active, restoring>>

\* The wallet button of a connected wallet.
AccountMenu == publicKey # None

Disconnect ==
    /\ AccountMenu
    /\ publicKey' = None
    /\ stored' = None
    /\ UNCHANGED <<active, restoring, connecting>>

\* In the extension; the application does not hear of it.
SwitchAccount(a) ==
    /\ active # a
    /\ active' = a
    /\ UNCHANGED <<publicKey, stored, restoring, connecting>>

\* The provider is mounted again.
Reload ==
    /\ publicKey' = None
    /\ restoring' = Listing /\ connecting' = FALSE
    /\ UNCHANGED <<active, stored>>

SessionStep ==
    \/ GetSupportedWallets \/ RestoreSession \/ ConnectWallet \/ WalletAnswers \/ Disconnect
    \/ \E a \in Account : SwitchAccount(a)

SessionTypes ==
    /\ active \in Account
    /\ {publicKey, stored} \subseteq Account \cup {None}
    /\ connecting \in BOOLEAN
    /\ restoring \in Account \cup {None, Listing}
=============================================================================
