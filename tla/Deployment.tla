----------------------------- MODULE Deployment -----------------------------
(***************************************************************************)
(* The deployment script (scripts/deploy): main walks through its steps and *)
(* writes what it has done to a file after each, so that a later run can    *)
(* resume.  Every step is a command of the Stellar CLI, which may fail, or  *)
(* take effect and fail to say so; the script may be killed anywhere; and   *)
(* the keys it signs with live on the machine, not in the file.             *)
(***************************************************************************)
EXTENDS Naturals, Sequences

CONSTANTS
    MaxInstances,       \* contracts deployed, the forgotten ones included
    MaxProposals,       \* SetOracle proposals made
    MaxMachines         \* machines the script is run on, each with its own keys

ASSUME DeploymentAssumption == {MaxInstances, MaxProposals, MaxMachines} \subseteq Nat \ {0}

Contract == {"oracle", "bobtToken", "treasury"}
Identity == {"owner", "oracleOperator", "treasurySigner1", "treasurySigner2"}
InOrder  == <<"oracle", "bobtToken", "treasury">>

NoKeys == [i \in Identity |-> 0]

\* The file when there is none yet.
Blank == [publicKeys |-> NoKeys, contracts |-> [c \in Contract |-> 0], initialized |-> {}]

VARIABLES
    saved,              \* the deployment file
    config,             \* what the running script knows
    pc,                 \* where main is
    written,            \* whether config has been written since it changed
    proposalId,         \* the proposal the script is putting through
    machine, keys,      \* the machine, and the machine each key was made on
    instances,          \* contracts on chain: kind, keys given to initialize, links
    proposals,          \* SetOracle proposals on chain
    minters             \* instances the token on record lets mint

script == <<config, pc, written, proposalId>>
chain  == <<instances, proposals, minters>>
local  == <<machine, keys>>
deployVars == <<saved, script, local, chain>>

DeployInit ==
    /\ saved = Blank /\ config = Blank /\ pc = "off" /\ written = TRUE /\ proposalId = 0
    /\ machine = 1 /\ keys = NoKeys
    /\ instances = <<>> /\ proposals = <<>> /\ minters = {}
-----------------------------------------------------------------------------
\* The file, or its blank.
LoadDeployment ==
    /\ pc = "off"
    /\ config' = saved
    /\ pc' = "identities"
    /\ UNCHANGED <<saved, written, proposalId, local, chain>>

\* After every step main writes the file before it goes on.
SaveDeployment ==
    /\ ~written
    /\ saved' = config
    /\ written' = TRUE
    /\ UNCHANGED <<config, pc, proposalId, local, chain>>

At(step) == pc = step /\ written

Continue(step, c) == pc' = step /\ config' = c /\ written' = FALSE

\* An error that nobody catches, a signal, or the end: memory is gone.
Exit == pc' = "off" /\ config' = Blank /\ written' = TRUE /\ proposalId' = 0

Killed == /\ pc # "off"
          /\ Exit
          /\ UNCHANGED <<saved, local, chain>>

First(missing) ==
    LET place == CHOOSE i \in 1..3 : /\ InOrder[i] \in missing
                                     /\ \A j \in 1..i - 1 : InOrder[j] \notin missing
    IN  InOrder[place]

Undeployed == {c \in Contract : config.contracts[c] = 0}
Uninitialized == Contract \ config.initialized
-----------------------------------------------------------------------------
\* Slip: a key that exists is made anew.
GenerateAnyKey ==
    /\ At("identities")
    /\ \E i \in Identity :
          /\ keys[i] < 2
          /\ keys' = [keys EXCEPT ![i] = @ + 1]
    /\ UNCHANGED <<saved, script, machine, chain>>

\* A key that does not exist is made; one that cannot be made ends the script
\* (Killed), the failure of the command itself being ignored.
GenerateKey ==
    /\ At("identities")
    /\ \E i \in Identity :
          /\ keys[i] = 0
          /\ keys' = [keys EXCEPT ![i] = machine]
    /\ UNCHANGED <<saved, script, machine, chain>>

GenerateIdentities ==
    /\ At("identities")
    /\ \A i \in Identity : keys[i] # 0
    /\ Continue("funding", [config EXCEPT !.publicKeys = keys])
    /\ UNCHANGED <<saved, proposalId, local, chain>>

\* Funding that fails, or is skipped on mainnet, stops nothing.
FundAccounts ==
    /\ At("funding")
    /\ pc' = "deploy"
    /\ UNCHANGED <<saved, config, written, proposalId, local, chain>>

NewInstance(c) == instances' = Append(instances, [kind |-> c, by |-> NoKeys, token |-> 0, oracle |-> 0])

\* Slip: a contract on record is deployed again.
DeployAnyContract ==
    /\ At("deploy")
    /\ Len(instances) < MaxInstances
    /\ \E c \in Contract :
          /\ NewInstance(c)
          /\ Continue("deploy", [config EXCEPT !.contracts[c] = Len(instances) + 1])
    /\ UNCHANGED <<saved, proposalId, local, proposals, minters>>

\* The contract is deployed, and its address read from the answer or lost with it.
DeployContract ==
    /\ At("deploy")
    /\ Len(instances) < MaxInstances
    /\ Undeployed # {}
    /\ LET c == First(Undeployed) IN
       /\ NewInstance(c)
       /\ \/ /\ Continue("deploy", [config EXCEPT !.contracts[c] = Len(instances) + 1])
             /\ UNCHANGED proposalId
          \/ Exit
    /\ UNCHANGED <<saved, local, proposals, minters>>

AllDeployed ==
    /\ At("deploy")
    /\ Undeployed = {}
    /\ pc' = "initialize"
    /\ UNCHANGED <<saved, config, written, proposalId, local, chain>>

Flagged(f) == [config EXCEPT !.initialized = @ \cup {f}]

Fresh(id) == instances[id].by = NoKeys

\* Slip: the script writes down that it is done before it is.
FlagFirst ==
    /\ At("initialize")
    /\ Uninitialized # {}
    /\ Continue("initialize", Flagged(First(Uninitialized)))
    /\ UNCHANGED <<saved, proposalId, local, chain>>

\* The keys and the links of the file go into the contract, which takes them
\* once.  Refused for that reason, the script takes the step as done if the
\* CLI's message names the error, and stops if it does not.
InitializeContract ==
    /\ At("initialize")
    /\ Uninitialized # {}
    /\ LET c == First(Uninitialized)
           id == config.contracts[c] IN
       /\ IF Fresh(id)
          THEN instances' = [instances EXCEPT ![id] = [@ EXCEPT !.by = config.publicKeys,
                   !.token = IF c = "treasury" THEN config.contracts["bobtToken"] ELSE 0]]
          ELSE UNCHANGED instances
       /\ \/ Continue("initialize", Flagged(c)) /\ UNCHANGED proposalId
          \/ Exit
    /\ UNCHANGED <<saved, local, proposals, minters>>

\* Slip: an initialization that fails is only logged, as later failures are.
InitializationTried ==
    /\ At("initialize")
    /\ pc' = "propose"
    /\ UNCHANGED <<saved, config, written, proposalId, local, chain>>

AllInitialized ==
    /\ At("initialize")
    /\ Uninitialized = {}
    /\ pc' = IF "treasuryOracle" \in config.initialized THEN "grant" ELSE "propose"
    /\ UNCHANGED <<saved, config, written, proposalId, local, chain>>
-----------------------------------------------------------------------------
Treasury == config.contracts["treasury"]

\* The key on this machine is one the treasury was initialized with.
Signs(i) == instances[Treasury].by[i] = keys[i]

\* Whatever goes wrong in the three calls is logged and the file is written.
Skipped == Continue("grant", config) /\ UNCHANGED proposalId

ProposeSetOracle ==
    /\ At("propose")
    /\ \/ /\ Signs("treasurySigner1")
          /\ Len(proposals) < MaxProposals
          /\ proposals' = Append(proposals, [treasury |-> Treasury, approved |-> FALSE,
                              target |-> config.contracts["oracle"], executed |-> FALSE])
          /\ \/ pc' = "approve" /\ proposalId' = Len(proposals) + 1 /\ UNCHANGED <<config, written>>
             \/ Skipped
       \/ Skipped /\ UNCHANGED proposals
    /\ UNCHANGED <<saved, local, instances, minters>>

ApproveSetOracle ==
    /\ At("approve")
    /\ \/ /\ proposals' = [proposals EXCEPT ![proposalId].approved = Signs("treasurySigner2")]
          /\ \/ /\ Signs("treasurySigner2")
                /\ pc' = "execute"
                /\ UNCHANGED <<config, written, proposalId>>
             \/ Skipped
       \/ Skipped /\ UNCHANGED proposals
    /\ UNCHANGED <<saved, local, instances, minters>>

ExecuteSetOracle ==
    /\ At("execute")
    /\ \/ /\ proposals' = [proposals EXCEPT ![proposalId].executed = TRUE]
          /\ instances' = [instances EXCEPT ![Treasury].oracle = proposals[proposalId].target]
          /\ \/ Continue("grant", Flagged("treasuryOracle")) /\ UNCHANGED proposalId
             \/ Skipped
       \/ Skipped /\ UNCHANGED <<proposals, instances>>
    /\ UNCHANGED <<saved, local, minters>>

\* The roles map_role knows.
TokenRole == {"minter", "pauser", "blklst", "rescuer", "owner"}

\* The role the script asks for.
Asked == "MINTER"

\* What may come back: only the owner grants, a role the token knows, and it
\* grants one again without a word, so that "already" is never among them.
GrantAnswers ==
    LET token == instances[config.contracts["bobtToken"]] IN
    IF "treasuryMinter" \in config.initialized THEN {"not asked"}
    ELSE {"refused"} \cup IF Asked \in TokenRole /\ token.by["owner"] = keys["owner"]
                           THEN {"granted", "lost"} ELSE {}

\* A refusal is logged, and main goes on to say that the deployment is complete.
GrantMinterRole ==
    /\ At("grant")
    /\ \E answer \in GrantAnswers :
          /\ minters' = IF answer \in {"granted", "lost"} THEN minters \cup {Treasury} ELSE minters
          /\ Continue("complete", IF answer \in {"granted", "already"}
                                  THEN Flagged("treasuryMinter") ELSE config)
    /\ UNCHANGED <<saved, proposalId, local, instances, proposals>>
-----------------------------------------------------------------------------
\* The file goes along, the keys do not.
MoveToNewMachine ==
    /\ pc = "off"
    /\ machine < MaxMachines
    /\ machine' = machine + 1
    /\ keys' = NoKeys
    /\ UNCHANGED <<saved, script, chain>>

DeployNext ==
    \/ LoadDeployment \/ SaveDeployment \/ Killed \/ MoveToNewMachine
    \/ GenerateKey \/ GenerateIdentities \/ FundAccounts
    \/ DeployContract \/ AllDeployed \/ InitializeContract \/ AllInitialized
    \/ ProposeSetOracle \/ ApproveSetOracle \/ ExecuteSetOracle \/ GrantMinterRole

DeploySpec == DeployInit /\ [][DeployNext]_deployVars

Complete == pc = "complete" /\ written

\* What the status script prints for the price updater, if anything.
UpdaterConfigured == keys["oracleOperator"] # 0 /\ saved.contracts["oracle"] # 0
-----------------------------------------------------------------------------
Id == 0..MaxInstances

DeployConfig == [publicKeys : [Identity -> 0..MaxMachines], contracts : [Contract -> Id],
                 initialized : SUBSET (Contract \cup {"treasuryOracle", "treasuryMinter"})]

DeployTypeOK ==
    /\ {saved, config} \subseteq DeployConfig
    /\ pc \in {"off", "identities", "funding", "deploy", "initialize", "propose", "approve",
               "execute", "grant", "complete"}
    /\ written \in BOOLEAN
    /\ proposalId \in 0..Len(proposals)
    /\ machine \in 1..MaxMachines /\ keys \in [Identity -> 0..machine]
    /\ Len(instances) <= MaxInstances /\ Len(proposals) <= MaxProposals
    /\ minters \subseteq 1..MaxInstances

(* What the file says is so, whatever was killed, lost or resumed in        *)
(* between: a recorded contract is on chain and of its kind, a step         *)
(* recorded as done has been done to the recorded contract, and the         *)
(* treasury is tied to the recorded token and, if so recorded, oracle.      *)
FileIsTrue ==
    LET at(c) == instances[saved.contracts[c]] IN
    /\ \A c \in Contract : saved.contracts[c] # 0 =>
          saved.contracts[c] \in DOMAIN instances /\ at(c).kind = c
    /\ \A c \in Contract \cap saved.initialized : saved.contracts[c] # 0 /\ at(c).by # NoKeys
    /\ "treasury" \in saved.initialized => at("treasury").token = saved.contracts["bobtToken"]
    /\ "treasuryOracle" \in saved.initialized => at("treasury").oracle = saved.contracts["oracle"]
    /\ "treasuryMinter" \in saved.initialized => saved.contracts["treasury"] \in minters

(* A contract once recorded is never deployed again by a later run: its     *)
(* address in the file, which front end and updater have by then, stays.    *)
RecordStays ==
    [][\A c \in Contract : saved.contracts[c] # 0 => saved'.contracts[c] = saved.contracts[c]]_deployVars

(* As long as nobody moves machines, the key the status script hands to the *)
(* price updater is the one the oracle was given as operator, and the       *)
(* signers and owner of the contracts are keys the team still has, however  *)
(* many runs it took to get there.                                          *)
KeysStillTheirs ==
    machine = 1 =>
        /\ \A id \in DOMAIN instances : ~Fresh(id) => instances[id].by = keys
        /\ UpdaterConfigured /\ "oracle" \in saved.initialized =>
              instances[saved.contracts["oracle"]].by["oracleOperator"] = keys["oracleOperator"]

(* The treasury's oracle changes only by a proposal both signers backed,    *)
(* and a script that reports completion leaves three initialized contracts. *)
CompleteIsWired ==
    /\ Complete => Contract \subseteq saved.initialized /\ saved = config
    /\ \A id \in DOMAIN instances : instances[id].oracle # 0 =>
          \E p \in DOMAIN proposals :
              proposals[p].treasury = id /\ proposals[p].approved /\ proposals[p].executed

(* A script that says "DEPLOYMENT COMPLETE" has granted "MINTER role to     *)
(* Treasury" (deploy.ts:10, 541): without it no approved mint goes through. *)
CompleteGrants == Complete => config.contracts["treasury"] \in minters
=============================================================================
