---------------------------- MODULE VerifyDeploy ----------------------------
(***************************************************************************)
(* verify-deploy: the report an operator reads before and between the      *)
(* scripts.  A report is a function of the chain, of the extension.env it  *)
(* is pointed at and of the process that makes it, so it is an operator    *)
(* here, evaluated in every state the scripts can leave.                   *)
(*                                                                         *)
(*   file  an extension.env, which may be there and not open; its two      *)
(*         values are 0 when nothing is read of them, -1 when what is read *)
(*         is not an id or not an address                                  *)
(*   host  the process: its flags and environment variables, what answers, *)
(*         and the extensions whose sender R7 asks for in vain             *)
(*                                                                         *)
(* Left out: messages, suggested fixes, and the two output formats.        *)
(***************************************************************************)
EXTENDS Deployment

Result(id, about, status) == [id |-> id, about |-> about, status |-> status]
Pick(id, about, good, otherwise) == {Result(id, about, IF good THEN "PASS" ELSE otherwise)}
Skip(id) == {Result(id, "", "SKIP")}
HasFailures(report) == \E r \in report : r.status = "FAIL"

Absent(value) == value = 0
WellFormed(value) == value > 0
NoFile == [exists |-> FALSE, opens |-> FALSE, extension |-> 0, sender |-> 0]
Unopened == [NoFile EXCEPT !.exists = TRUE]

(* LOCAL_MODE unset counts as local everywhere.                            *)
Local(host) == host.localMode \in {"", "true"}

-----------------------------------------------------------------------------
(* Step 1, contract deployment.                                            *)
AddressNotZero(host) == host.diamond # "zero"
AddressHasCode(host) == host.rpc /\ host.diamond = "contract"
KeyHasFunds(host) == host.rpc /\ host.funded

CheckDeployerKeySource(host) == Pick("D5", "key", host.key \/ Local(host), "WARN")

CheckExtensionEnvFormat(file) ==
    IF file.opens
      THEN Pick("D7", "sender", WellFormed(file.sender), "FAIL")
             \cup Pick("D7", "extension", WellFormed(file.extension), "FAIL")
      ELSE Skip("D7")

checkChainID(host) == Pick("D6", "", host.rpc, "FAIL")

DeployChecks(file, host) ==
    Pick("D3", "", AddressNotZero(host), "FAIL")
      \cup (IF AddressNotZero(host) THEN Pick("D1", "", AddressHasCode(host), "FAIL") ELSE {})
      \cup CheckDeployerKeySource(host)
      \cup Pick("D5", "funds", KeyHasFunds(host), "FAIL")
      \cup checkChainID(host)
      \cup (IF host.config THEN CheckExtensionEnvFormat(file) ELSE {})

-----------------------------------------------------------------------------
(* Step 2, registration.  An id the registry does not know has no sender.  *)
NextPublicExtensionId == Len(extensions) + 1
SenderOf(id) == IF id \in DOMAIN extensions THEN extensions[id].sender ELSE 0
Has(id, item) == id \in DOMAIN extensions /\ item \in extensions[id].done

CountersCheck(host) ==
    IF host.rpc THEN Pick("R1", "", NextPublicExtensionId # 0, "WARN")
                ELSE {Result("R1", "", "FAIL")}

SenderCheck(file, host) ==
    IF WellFormed(file.sender)
      THEN Pick("R2", "", host.rpc /\ SenderOf(file.extension) = file.sender, "FAIL")
      ELSE {}

OwnerCheck(file, host) ==
    Pick("R3", "", host.rpc /\ Has(file.extension, "machineOwner"), "FAIL")

KeyTypeCheckNewest(file, host) ==   \* faulty: asks about the extension registered last
    Pick("R4", "", host.rpc /\ Has(NextPublicExtensionId - 1, "keyType"), "FAIL")
KeyTypeCheck(file, host) ==
    Pick("R4", "", host.rpc /\ Has(file.extension, "keyType"), "FAIL")

(* faulty: the newest extension is not looked at *)
MatchingButLast(file, host) ==
    {id \in 0..(NextPublicExtensionId - 2) \ host.unread : SenderOf(id) = file.sender}

(* An extension whose sender could not be read is passed over.             *)
MatchingIDs(file, host) ==
    {id \in 0..(NextPublicExtensionId - 1) \ host.unread : SenderOf(id) = file.sender}

UniqueSenderCheck(file, host) ==
    IF host.rpc /\ WellFormed(file.sender)
      THEN Pick("R7", "", Cardinality(MatchingIDs(file, host)) <= 1, "WARN")
      ELSE {}

RegistrationChecks(file, host) ==
    CASE ~host.config \/ (Absent(file.extension) /\ Absent(file.sender)) -> Skip("R1-R7")
      [] host.config /\ WellFormed(file.extension) ->
           CountersCheck(host) \cup SenderCheck(file, host) \cup OwnerCheck(file, host)
             \cup KeyTypeCheck(file, host) \cup UniqueSenderCheck(file, host)
      [] OTHER -> CountersCheck(host) \cup {Result("R2", "format", "FAIL")}

-----------------------------------------------------------------------------
(* The other steps read environment variables and ask URLs for /info; they *)
(* each parse extension.env again.                                         *)
Reachable(id, url) ==
    IF url = "" THEN Skip(id) ELSE Pick(id, "", url = "answers", "WARN")

ExtensionSetCheck(file, host) ==
    IF host.config THEN Pick("S2", "", WellFormed(file.extension), "FAIL") ELSE Skip("S2")

PortCheck(host) == Pick("S5", "", ~host.portTaken, "WARN")
PortConfiguration == Pick("S7", "", TRUE, "PASS")
ProxyKeyCheck(host) == Pick("S10", "", host.localMode # "false" \/ host.proxyKey, "WARN")

ServicesChecks(file, host) ==
    ExtensionSetCheck(file, host) \cup PortCheck(host) \cup PortConfiguration
      \cup Reachable("S9", host.proxyUrl) \cup ProxyKeyCheck(host)

OwnerKeyCheck(host) == Pick("V2", "", host.ownerKey \/ host.key \/ Local(host), "WARN")

ExtensionValidCheck(file, host) ==
    IF ~host.config \/ ~file.exists THEN Skip("V4")
                                    ELSE Pick("V4", "", WellFormed(file.extension), "FAIL")

TeeVersionChecks(file, host) ==
    OwnerKeyCheck(host) \cup ExtensionValidCheck(file, host) \cup Reachable("V6", host.proxyUrl)

SimulatedCheck(host) == Pick("T1", "", ~(host.simulated /\ host.localMode = "false"), "WARN")

TeeMachineChecks(host) ==
    SimulatedCheck(host) \cup Reachable("T5", host.normalUrl) \cup Reachable("T10", host.proxyUrl)

SenderValidCheck(file, host) ==
    IF ~host.config \/ ~file.exists THEN Skip("E1")
                                    ELSE Pick("E1", "", WellFormed(file.sender), "FAIL")

TestChecks(file, host) ==
    SenderValidCheck(file, host) \cup Reachable("E3", host.proxyUrl) \cup Pick("E6", "", TRUE, "PASS")

-----------------------------------------------------------------------------
(* verify-deploy -step; without -checks every result counts.               *)
StepReport(step, file, host) ==
    CASE step = "deploy" -> DeployChecks(file, host)
      [] step = "register" -> RegistrationChecks(file, host)
      [] step = "services" -> ServicesChecks(file, host)
      [] step = "tee-version" -> TeeVersionChecks(file, host)
      [] step = "tee-machine" -> TeeMachineChecks(host)
      [] step = "test" -> TestChecks(file, host)

Steps == {"deploy", "register", "services", "tee-version", "tee-machine", "test"}

(* The chain steps end with an error, and no report, when the node does    *)
(* not answer the first call.                                              *)
NeedsChain(step) == step \in {"deploy", "register", "all"}

Filtered(report, checks) == IF checks = {} THEN report ELSE {r \in report : r.id \in checks}

ExitsZero(step, file, host, checks) ==
    /\ NeedsChain(step) => host.rpc
    /\ \A s \in IF step = "all" THEN Steps ELSE {step} :
           ~HasFailures(Filtered(StepReport(s, file, host), checks))

-----------------------------------------------------------------------------
Statuses(report, id) == {r.status : r \in {q \in report : q.id = id}}

Files == {NoFile, Unopened} \cup
    [exists : {TRUE}, opens : {TRUE}, extension : -1..MaxExtensions, sender : -1..MaxSenders]
EnvFile == [exists |-> env.exists, opens |-> env.exists,
            extension |-> env.extension, sender |-> env.sender]
Host(unread) == [config |-> TRUE, rpc |-> TRUE, diamond |-> "contract", funded |-> TRUE, key |-> TRUE,
         ownerKey |-> FALSE, proxyKey |-> TRUE, localMode |-> "false", simulated |-> FALSE,
         portTaken |-> FALSE, proxyUrl |-> "answers", normalUrl |-> "answers",
         unread |-> unread]
Hosts == {Host(unread) : unread \in SUBSET DOMAIN extensions}

(* What a clean report means.  When verify-deploy exits 0 and warns of no  *)
(* shared sender, then its file could be read, the file's contract is the  *)
(* one its extension names, machines and keys of that extension can be     *)
(* registered, and setExtensionId on the contract finds it, unless an      *)
(* extension naming the contract is one that R7 passed over: in whatever   *)
(* state pre-builds that died and hand-run registrations left the chain,   *)
(* and whatever the file holds.                                            *)
CleanReport ==
    At("idle") =>
        \A file \in Files, host \in Hosts :
            (/\ ExitsZero("all", file, host, {})
             /\ Statuses(RegistrationChecks(file, host), "R7") = {"PASS"}) =>
                /\ file.opens /\ SenderOf(file.extension) = file.sender
                /\ {"machineOwner", "keyType"} \subseteq extensions[file.extension].done
                /\ \/ FindExtension(file.sender) = file.extension
                   \/ Naming(file.sender) \cap host.unread # {}

(* What pre-build.sh leaves when it completes passes verification at once  *)
(* and ever after, whatever is deployed, registered, restarted or retired  *)
(* later, and whichever senders R7 passes over.                            *)
PreBuildVerifies ==
    (At("idle") /\ Complete) =>
        \A host \in Hosts :
            \A r \in DeployChecks(EnvFile, host) \cup RegistrationChecks(EnvFile, host) :
                r.status = "PASS" \/ (r.id = "R7" /\ Cardinality(Naming(env.sender)) > 1)
=============================================================================
