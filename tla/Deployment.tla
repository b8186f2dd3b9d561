----------------------------- MODULE Deployment -----------------------------
(***************************************************************************)
(* The operator's side of a deployment: deploy-contract and                *)
(* register-extension under pre-build.sh, the trusted machine the services *)
(* start, allow-tee-version, set-governance, register-tee and              *)
(* setExtensionId under post-build.sh, rotate.mjs, and retire-machine.mjs  *)
(* under it or by hand.  One operator runs one script at a time.  A script *)
(* is a sequence of transactions and local writes; it can die before any   *)
(* of them, and the same scripts are run again on whatever it left behind. *)
(* A machine that restarts is another machine, at any moment, between any  *)
(* two steps of a script.                                                  *)
(*                                                                         *)
(* The registry on chain is not in the repository: it is modelled from the *)
(* calls made to it and from what the scripts say it refuses.  Left out:   *)
(* gas and fees, URLs, signatures, register-tee's -i flag (no script gives *)
(* it), the documents rotate.mjs rewrites, and everything that is logged.  *)
(***************************************************************************)
EXTENDS Integers, Sequences, FiniteSets

CONSTANTS
    MaxSenders,       \* bound on deployed ButaInstructionSender contracts
    MaxExtensions,    \* bound on registered extensions
    MaxMachines,      \* bound on starts of the trusted machine
    RegisteredByHand, \* bound on the contracts register-extension is run on by hand
    RetiredByHand,    \* bound on the machines retire-machine.mjs is run on by hand
    Commands,         \* the -command strings register-tee is run with, as sets of letters
    Governances,      \* the signer sets set-governance may be configured with
    NodeGovernance,   \* the one the machine was configured with
    Epochs            \* reward epochs and signing policies

ASSUME BoundsAssumption == MaxSenders \in Nat /\ MaxExtensions \in Nat /\ MaxMachines \in Nat
ASSUME CommandsAssumption == Commands \subseteq SUBSET {"r", "R", "a", "p"}

VARIABLES
    senders,        \* contracts deployed so far, at addresses 1..senders
    extensions,     \* the registry: an extension's id is its place
    extensionIdOf,  \* _extensionId of each contract
    trusted,        \* teeAddress of each contract
    machines,       \* status of each machine
    open,           \* machines whose latest attestation challenge is still good
    home,           \* the extension of each machine started; the last one runs
    env,            \* config/extension.env
    saved,          \* config/register-tee.state
    op              \* the script being run

vars == <<senders, extensions, extensionIdOf, trusted, machines, open, home, env, saved, op>>

Senders == 1..MaxSenders
Machines == 1..MaxMachines
OwnerSetup == {"machineOwner", "projectOwner", "keyType"}   \* what SetupExtension adds

NoEnv == [exists |-> FALSE, extension |-> 0, sender |-> 0]
NoCheck == [tee |-> 0, cosigned |-> FALSE]
NoState == [steps |-> {}, attest |-> 0, check |-> NoCheck]
Idle == [script |-> "none", at |-> "idle", sender |-> 0, extension |-> 0, serving |-> 0,
         tee |-> 0, command |-> {}, fresh |-> FALSE, known |-> NoState]

node == Len(home)                      \* the machine that answers, 0 before the first
At(label) == op.at = label
Go(label) == [op EXCEPT !.at = label]

(* The machines getRandomTeeIds hands out for an extension.                *)
Active(extension) == {m \in 1..node : machines[m] = "production" /\ home[m] = extension}

(* setExtensionId takes the first extension that names the contract.       *)
Naming(s) == {e \in DOMAIN extensions : extensions[e].sender = s}
FindLast(s) ==   \* faulty: the latest registration wins
    IF Naming(s) = {} THEN 0 ELSE CHOOSE e \in Naming(s) : \A f \in Naming(s) : f <= e
FindExtension(s) ==
    IF Naming(s) = {} THEN 0 ELSE CHOOSE e \in Naming(s) : \A f \in Naming(s) : e <= f

DeploymentInit ==
    /\ senders = 0 /\ extensions = <<>> /\ home = <<>>
    /\ extensionIdOf = [s \in Senders |-> 0] /\ trusted = [s \in Senders |-> 0]
    /\ machines = [m \in Machines |-> "none"] /\ open = {}
    /\ env = NoEnv /\ saved = NoState /\ op = Idle

-----------------------------------------------------------------------------
(***************************************************************************)
(* pre-build.sh: a new contract, a new extension, and the file that names  *)
(* both.                                                                   *)
(***************************************************************************)
StartPreBuild ==
    /\ At("idle")
    /\ op' = [Idle EXCEPT !.script = "pre-build", !.at = "deploy"]
    /\ UNCHANGED <<senders, extensions, extensionIdOf, trusted, machines, open, home, env, saved>>

DeployInstructionSender ==
    /\ At("deploy")
    /\ senders < MaxSenders
    /\ senders' = senders + 1
    /\ op' = [Go("register") EXCEPT !.sender = senders + 1]
    /\ UNCHANGED <<extensions, extensionIdOf, trusted, machines, open, home, env, saved>>

(* register-extension run by hand, for a contract that is already there.   *)
StartRegisterExtension(s) ==
    /\ At("idle")
    /\ s <= senders
    /\ op' = [Idle EXCEPT !.script = "register-extension", !.at = "register", !.sender = s]
    /\ UNCHANGED <<senders, extensions, extensionIdOf, trusted, machines, open, home, env, saved>>

registerExtension ==
    /\ At("register")
    /\ Len(extensions) < MaxExtensions
    /\ extensions' = Append(extensions, [sender |-> op.sender, done |-> {}, governance |-> "none"])
    /\ op' = [Go("machineOwner") EXCEPT !.extension = Len(extensions) + 1]
    /\ UNCHANGED <<senders, extensionIdOf, trusted, machines, open, home, env, saved>>

(* The three transactions after it, each skipped when the registry already *)
(* has what it adds.                                                       *)
AfterSetup(item) == CASE item = "machineOwner" -> "projectOwner"
                      [] item = "projectOwner" -> "keyType"
                      [] item = "keyType" -> "write"

SetupExtension(item) ==
    /\ At(item)
    /\ extensions' = [extensions EXCEPT ![op.extension].done = @ \cup {item}]
    /\ op' = Go(AfterSetup(item))
    /\ UNCHANGED <<senders, extensionIdOf, trusted, machines, open, home, env, saved>>

(* extension.env is written line by line: a script that dies here leaves   *)
(* it empty, or without INSTRUCTION_SENDER.  register-extension on its own *)
(* writes nothing.                                                         *)
WriteEnv ==
    /\ At("write")
    /\ IF op.script = "pre-build"
         THEN \E lines \in {<<0, 0>>, <<op.extension, 0>>, <<op.extension, op.sender>>} :
                 env' = [exists |-> TRUE, extension |-> lines[1], sender |-> lines[2]]
         ELSE env' = env
    /\ op' = Idle
    /\ UNCHANGED <<senders, extensions, extensionIdOf, trusted, machines, open, home, saved>>

(* A transaction refused or not mined in time, an answer that does not     *)
(* come, a crash: whatever the script had done stays.                      *)
Die ==
    /\ ~At("idle")
    /\ op' = Idle
    /\ UNCHANGED <<senders, extensions, extensionIdOf, trusted, machines, open, home, env, saved>>

-----------------------------------------------------------------------------
(***************************************************************************)
(* The machine.  tee-node makes its key when it starts and keeps it        *)
(* nowhere; EXTENSION_ID is read from extension.env by start-services.sh   *)
(* and kept by a container that is only restarted.                         *)
(***************************************************************************)
(* faulty: starts without an EXTENSION_ID *)
StartNodeUnnamed ==
    /\ node < MaxMachines
    /\ home' = Append(home, env.extension)
    /\ UNCHANGED <<senders, extensions, extensionIdOf, trusted, machines, open, env, saved, op>>

StartNode ==
    /\ node < MaxMachines
    /\ \E e \in {env.extension} \cup {home[m] : m \in {node} \ {0}} :
          /\ e \in DOMAIN extensions
          /\ home' = Append(home, e)
    /\ UNCHANGED <<senders, extensions, extensionIdOf, trusted, machines, open, env, saved, op>>

(* An attestation challenge is good for a while and for one use.           *)
ExpireChallenge(m) ==
    /\ m \in open
    /\ open' = open \ {m}
    /\ UNCHANGED <<senders, extensions, extensionIdOf, trusted, machines, home, env, saved, op>>

-----------------------------------------------------------------------------
(***************************************************************************)
(* post-build.sh and register-tee.                                         *)
(***************************************************************************)
Complete == env.extension # 0 /\ env.sender # 0

PostBuild(script, first) ==
    /\ At("idle")
    /\ Complete /\ node # 0
    /\ op' = [Idle EXCEPT !.script = script, !.at = first, !.serving = node, !.fresh = TRUE,
                          !.command = {"r", "R", "a", "p"}]
    /\ UNCHANGED <<senders, extensions, extensionIdOf, trusted, machines, open, home, env, saved>>

StartPostBuild == \E first \in {"version", "governance"} : PostBuild("post-build", first)

(* The extension is the one the running machine reports, not the file's.   *)
AllowTeeVersion ==
    /\ At("version")
    /\ extensions' = [extensions EXCEPT ![home[node]].done = @ \cup {"version"}]
    /\ op' = Go("governance")
    /\ UNCHANGED <<senders, extensionIdOf, trusted, machines, open, home, env, saved>>

SetTeeGovernance(g) ==
    /\ At("governance")
    /\ extensions' = [extensions EXCEPT ![home[node]].governance = g]
    /\ op' = Go("info")
    /\ UNCHANGED <<senders, extensionIdOf, trusted, machines, open, home, env, saved>>

StartRegisterTee(command, resume) ==
    /\ At("idle")
    /\ node # 0
    /\ op' = [Idle EXCEPT !.script = "register-tee", !.at = "info", !.command = command,
                          !.fresh = ~resume]
    /\ UNCHANGED <<senders, extensions, extensionIdOf, trusted, machines, open, home, env, saved>>

(* Without --resume the state file is removed; that it could not be is     *)
(* only warned about, and the file is then read like any other.            *)
StateFiles == IF op.fresh THEN {NoState, saved} ELSE {saved}

ReadTeeInfo ==
    /\ At("info")
    /\ saved' \in StateFiles
    /\ op' = [Go("r") EXCEPT !.tee = node, !.known = saved', !.fresh = (saved' = NoState)]
    /\ UNCHANGED <<senders, extensions, extensionIdOf, trusted, machines, open, home, env>>

Next4(letter) == CASE letter = "r" -> "R" [] letter = "R" -> "a"
                   [] letter = "a" -> "p" [] letter = "p" -> "remove"

Needed(letter) == letter \in op.command \ op.known.steps

(* A step the command does not ask for, or that the state file says is     *)
(* done, is passed over; what it produced then comes from the file.  There *)
(* is no such entry for p.                                                 *)
SkipStep(letter) ==
    /\ At(letter)
    /\ ~Needed(letter)
    /\ op' = Go(Next4(letter))
    /\ UNCHANGED <<senders, extensions, extensionIdOf, trusted, machines, open, home, env, saved>>

(* The step is remembered, and saved to the file; that it could not be     *)
(* saved is only warned about.                                             *)
Done(letter, known) ==
    /\ op' = [Go(Next4(letter)) EXCEPT !.known = [known EXCEPT !.steps = @ \cup {letter}]]
    /\ saved' \in {op'.known, saved}

(* register() takes a machine whose code version and governance the        *)
(* extension allows, from an owner on its allowlist.                       *)
Registrable(m) ==
    /\ extensions[home[m]].governance = NodeGovernance
    /\ {"machineOwner", "version"} \subseteq extensions[home[m]].done

PreRegistration ==
    /\ At("r") /\ Needed("r")
    /\ machines[op.tee] = "none"
    /\ Registrable(op.tee)
    /\ machines' = [machines EXCEPT ![op.tee] = "registered"]
    /\ open' = open \cup {op.tee}
    /\ Done("r", [op.known EXCEPT !.attest = op.tee])
    /\ UNCHANGED <<senders, extensions, extensionIdOf, trusted, home, env>>

(* For r of a machine the registry has already, and for R of any.          *)
RequestTeeAttestation(letter) ==
    /\ At(letter) /\ Needed(letter)
    /\ machines[op.tee] # "none"
    /\ open' = open \cup {op.tee}
    /\ Done(letter, [op.known EXCEPT !.attest = op.tee])
    /\ UNCHANGED <<senders, extensions, extensionIdOf, trusted, machines, home, env>>

policyInSync(epoch, policy) == policy \in {epoch, epoch + 1}

(* The gate stops a run only on a mismatch it has read; the data providers *)
(* cosign nothing under another policy, whether or not it was read, and    *)
(* need not cosign at all.                                                 *)
Cosigned == {cosigned \in BOOLEAN : \E epoch, policy \in Epochs, read \in BOOLEAN :
                (read \/ cosigned) => policyInSync(epoch, policy)}

(* The instruction id the r and R steps leave: nothing when neither was asked. *)
Attest == IF op.command \cap {"r", "R"} = {} THEN 0 ELSE op.known.attest

RequestFTDCAvailabilityCheck ==
    /\ At("a") /\ Needed("a")
    /\ Attest = op.tee /\ op.tee \in open
    /\ open' = open \ {op.tee}
    /\ \E cosigned \in Cosigned :
          Done("a", [op.known EXCEPT !.check = [tee |-> op.tee, cosigned |-> cosigned]])
    /\ UNCHANGED <<senders, extensions, extensionIdOf, trusted, machines, home, env>>

(* The instruction whose result is asked for, of whichever machine it is.  *)
Check == IF "a" \in op.command THEN op.known.check ELSE NoCheck

(* faulty: an availability check without a proof is not an error *)
ToProductionUnproved ==
    /\ At("p") /\ "p" \in op.command
    /\ machines' = IF Check.cosigned THEN [machines EXCEPT ![Check.tee] = "production"] ELSE machines
    /\ op' = Go("remove")
    /\ UNCHANGED <<senders, extensions, extensionIdOf, trusted, open, home, env, saved>>

ToProduction ==
    /\ At("p") /\ "p" \in op.command
    /\ Check.cosigned
    /\ machines[Check.tee] = "registered"
    /\ machines' = [machines EXCEPT ![Check.tee] = "production"]
    /\ op' = Go("remove")
    /\ UNCHANGED <<senders, extensions, extensionIdOf, trusted, open, home, env, saved>>

(* os.Remove's error is dropped.  After this register-tee reports the      *)
(* machine it read at the start as registered.                             *)
RemoveState ==
    /\ At("remove")
    /\ saved' \in {NoState, saved}
    /\ op' = Go("report")
    /\ UNCHANGED <<senders, extensions, extensionIdOf, trusted, machines, open, home, env>>

Report ==
    /\ At("report")
    /\ op' = IF op.script = "register-tee" THEN Idle ELSE Go("setId")
    /\ UNCHANGED <<senders, extensions, extensionIdOf, trusted, machines, open, home, env, saved>>

(* post-build.sh goes on whether or not the call succeeds.                 *)
AfterPostBuild == IF op.script = "rotate" THEN Go("trust") ELSE Idle

SetExtensionId ==
    /\ At("setId")
    /\ op' = AfterPostBuild
    /\ \/ /\ extensionIdOf[env.sender] = 0
          /\ FindExtension(env.sender) # 0
          /\ extensionIdOf' = [extensionIdOf EXCEPT ![env.sender] = FindExtension(env.sender)]
       \/ extensionIdOf' = extensionIdOf
    /\ UNCHANGED <<senders, extensions, trusted, machines, open, home, env, saved>>

-----------------------------------------------------------------------------
(***************************************************************************)
(* rotate.mjs, run once the services are back on a new machine.            *)
(***************************************************************************)
StartRotation ==
    PostBuild("rotate", IF machines[node] = "production" THEN "trust" ELSE "governance")

(* setTeeAddress refuses a machine that is not in production.              *)
Trust ==
    /\ At("trust")
    /\ trusted[env.sender] # op.serving => machines[op.serving] = "production"
    /\ trusted' = [trusted EXCEPT ![env.sender] = op.serving]
    /\ op' = Go("retire")
    /\ UNCHANGED <<senders, extensions, extensionIdOf, machines, open, home, env, saved>>

Strays == Active(env.extension) \ {op.serving}

(* faulty: takes out the whole set, the machine that answers with it *)
RetireAll ==
    /\ At("retire")
    /\ machines' = [m \in Machines |-> IF m \in Active(env.extension) THEN "paused" ELSE machines[m]]
    /\ op' = Idle
    /\ UNCHANGED <<senders, extensions, extensionIdOf, trusted, open, home, env, saved>>

(* faulty: what is left in the set is not looked at *)
RetireNothing ==
    /\ At("retire")
    /\ op' = Idle
    /\ UNCHANGED <<senders, extensions, extensionIdOf, trusted, machines, open, home, env, saved>>

(* retire-machine.mjs: a machine in production whose URL does not answer   *)
(* is taken for dead; one whose URL answers with its key is paused by      *)
(* force only.                                                             *)
RetireMachine(m, answers, force) ==
    /\ machines[m] = "production"
    /\ (answers /\ m = node) => force
    /\ machines' = [machines EXCEPT ![m] = "paused"]

Retire ==
    /\ At("retire")
    /\ IF Strays = {}
         THEN op' = Idle /\ machines' = machines
         ELSE /\ \E stray \in Strays, answers \in BOOLEAN : RetireMachine(stray, answers, FALSE)
              /\ op' = op
    /\ UNCHANGED <<senders, extensions, extensionIdOf, trusted, open, home, env, saved>>

RetireByHand(m) ==
    /\ At("idle")
    /\ \E answers, force \in BOOLEAN : RetireMachine(m, answers, force)
    /\ UNCHANGED <<senders, extensions, extensionIdOf, trusted, open, home, env, saved, op>>

-----------------------------------------------------------------------------
RegisterNode ==
    \/ \E letter \in {"r", "R", "a", "p"} : SkipStep(letter)
    \/ PreRegistration
    \/ \E letter \in {"r", "R"} : RequestTeeAttestation(letter)
    \/ RequestFTDCAvailabilityCheck
    \/ ToProduction
    \/ RemoveState

(* What the script in hand does next, short of dying.                      *)
ScriptStep ==
    \/ DeployInstructionSender \/ registerExtension
    \/ \E item \in OwnerSetup : SetupExtension(item)
    \/ WriteEnv
    \/ AllowTeeVersion
    \/ \E g \in Governances : SetTeeGovernance(g)
    \/ ReadTeeInfo \/ RegisterNode \/ Report \/ SetExtensionId
    \/ Trust \/ Retire

DeploymentNext ==
    \/ StartPreBuild
    \/ \E s \in Senders \cap RegisteredByHand : StartRegisterExtension(s)
    \/ StartPostBuild
    \/ \E command \in Commands, resume \in BOOLEAN : StartRegisterTee(command, resume)
    \/ StartRotation
    \/ \E m \in Machines \cap RetiredByHand : RetireByHand(m)
    \/ ScriptStep
    \/ Die
    \/ StartNode
    \/ \E m \in Machines : ExpireChallenge(m)

DeploymentSpec == DeploymentInit /\ [][DeploymentNext]_vars

-----------------------------------------------------------------------------
States == [steps : SUBSET {"r", "R", "a"}, attest : 0..MaxMachines,
           check : [tee : 0..MaxMachines, cosigned : BOOLEAN]]

(* Every step of every script keeps the registry, the files and the        *)
(* machines within what the next script, whichever it is, can read.        *)
DeploymentTypeOK ==
    /\ senders \in 0..MaxSenders
    /\ extensions \in Seq([sender : 1..senders, done : SUBSET (OwnerSetup \cup {"version"}),
                           governance : Governances \cup {"none"}])
    /\ Len(extensions) <= MaxExtensions
    /\ extensionIdOf \in [Senders -> 0..Len(extensions)]
    /\ trusted \in [Senders -> 0..node]
    /\ machines \in [Machines -> {"none", "registered", "production", "paused"}]
    /\ open \subseteq 1..node
    /\ home \in Seq(DOMAIN extensions) /\ node <= MaxMachines
    /\ env \in [exists : BOOLEAN, extension : 0..Len(extensions), sender : 0..senders]
    /\ saved \in States /\ op.known \in States
    /\ op.tee \in 0..node /\ op.serving \in 0..node

(* pre-build.sh hands three results from one program to the next through   *)
(* captured output and a file, any of which can be cut short.  A complete  *)
(* extension.env it wrote names a fully set up extension of the contract   *)
(* it names, and setExtensionId on that contract finds that extension and  *)
(* no other, whatever pre-builds died before and whatever extensions were  *)
(* registered by hand since.                                               *)
EnvNamesContractsExtension ==
    Complete =>
        /\ OwnerSetup \subseteq extensions[env.extension].done
        /\ extensions[env.extension].sender = env.sender
        /\ FindExtension(env.sender) = env.extension
        /\ extensionIdOf[env.sender] \in {0, env.extension}

(* "Registered TEE node with id" (register-tee/main.go:72) is printed of   *)
(* the machine that answered when the program started.  When it started    *)
(* with no state file and was asked to go to production, that machine has  *)
(* been in production, even if it restarted or the services moved under    *)
(* another extension in the middle.                                        *)
HasServed(m) == machines[m] \in {"production", "paused"}
Reported == At("report") /\ "p" \in op.command
FreshReportIsTrue == (Reported /\ op.fresh) => HasServed(op.tee)

(* The same line, of a run resumed from the state file, which "is saved    *)
(* after each step so registration can resume after failures"              *)
(* (registration.go:26).                                                   *)
ResumedReportIsTrue == (Reported /\ ~op.fresh) => HasServed(op.tee)

(* The desk works when the contract trusts the machine that answers and    *)
(* instructions can go to no other.                                        *)
Healthy == Complete /\ node # 0 /\ trusted[env.sender] = node /\ Active(env.extension) = {node}

(* One command takes a working desk down: retire-machine.mjs run by hand   *)
(* on the machine that serves, by force or while its URL does not answer.  *)
(* As long as the same machine answers and the same deployment is          *)
(* configured, running any script else, to its end or not, resumed from    *)
(* any state file, with what it read of the machine gone stale in the      *)
(* middle or with URLs that do not answer, leaves it working.              *)
HealthyStays ==
    [][(Healthy /\ home' = home /\ env' = env /\ ~RetireByHand(node)) => Healthy']_vars

(* What a rotation can be disturbed by.  A script that ends with its last  *)
(* step, or because the chain refuses its next one, was not disturbed.     *)
Setback ==
    \/ Die /\ ~ScriptStep /\ ENABLED ScriptStep
    \/ StartNode
    \/ \E m \in Machines : ExpireChallenge(m)
    \/ At("info") /\ op.fresh /\ ~op'.fresh                \* the state file could not be removed
    \/ At("governance") /\ extensions'[home[node]].governance # NodeGovernance
    \/ At("a") /\ op'.at = "p" /\ ~op'.known.check.cosigned

Prepared ==
    /\ Complete /\ node # 0 /\ machines[node] # "paused"
    /\ home[node] = env.extension
    /\ {"machineOwner", "version"} \subseteq extensions[env.extension].done

(* Rotation converges: on a deployment that was set up once, whatever      *)
(* state the earlier scripts and restarts left behind, when rotations keep *)
(* being run and from some time on none of them is disturbed and nobody    *)
(* has retired the machine that answers, the desk ends up working and      *)
(* stays so.                                                               *)
RotationConverges == (<>[]Prepared /\ <>[][~Setback]_vars) => <>[]Healthy

(* Every wait of the scripts has a limit, so a script goes on or ends; and *)
(* the operator keeps coming back to rotate.mjs, whatever else is run in   *)
(* between.                                                                *)
DeploymentFairness == WF_vars(ScriptStep \/ Die) /\ SF_vars(StartRotation)
=============================================================================
