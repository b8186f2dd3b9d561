-------------------------- MODULE DeploymentProofs --------------------------
(***************************************************************************)
(* The deployment scripts, for every number of contracts, extensions and   *)
(* starts of the machine: types, what a complete extension.env names, what *)
(* register-tee's last line says of the machine, what alone takes a        *)
(* working desk down, and what a report of verify-deploy is worth.         *)
(***************************************************************************)
EXTENDS VerifyDeploy, LibraryFacts, FiniteSetTheorems, WellFoundedInduction

-----------------------------------------------------------------------------
(***************************************************************************)
(* Types.  The script in hand has the fields its label will read.          *)
(***************************************************************************)
Letters == {"r", "R", "a", "p"}
Building == {"register", "write", "machineOwner", "projectOwner", "keyType"}
Registering == {"r", "R", "a", "p", "remove", "report"}
Posting == {"version", "governance", "setId", "trust", "retire"}
Labels == {"idle", "deploy", "info"} \cup Building \cup Registering \cup Posting
Scripts == {"none", "pre-build", "register-extension", "post-build", "rotate", "register-tee"}
Ops == [script : Scripts, at : Labels, sender : Nat, extension : Nat, serving : Nat, tee : Nat,
        command : SUBSET Letters, fresh : BOOLEAN, known : States]
Extension(n) == [sender : 1..n, done : SUBSET (OwnerSetup \cup {"version"}),
                 governance : Governances \cup {"none"}]

(* Which scripts get to a label, and what they know there, when s          *)
(* contracts, e extensions and n machines exist.                           *)
OpOK(o, s, e, n) ==
    /\ o \in Ops
    /\ o.sender <= s /\ o.extension <= e /\ o.tee <= n /\ o.serving <= n
    /\ o.at = "deploy" => o.script = "pre-build"
    /\ o.at \in Building => o.script \in {"pre-build", "register-extension"} /\ o.sender # 0
    /\ o.at \in Building \ {"register"} => o.extension # 0
    /\ o.at \in Posting => o.script \in {"post-build", "rotate"} /\ n # 0
    /\ o.at \in Registering \cup {"info"} => o.script \in {"post-build", "rotate", "register-tee"} /\ n # 0
    /\ o.at \in Registering => o.tee # 0

TypeInv == DeploymentTypeOK /\ OpOK(op, senders, Len(extensions), node)

(* What TypeInv says of lengths and elements.                              *)
LEMMA TypeFacts ==
    ASSUME TypeInv
    PROVE  /\ Len(extensions) \in Nat /\ DOMAIN extensions = 1..Len(extensions)
           /\ node \in Nat /\ DOMAIN home = 1..node /\ node = Len(home) /\ node <= MaxMachines
           /\ \A m \in 1..node : home[m] \in DOMAIN extensions
           /\ \A e \in DOMAIN extensions : extensions[e] \in Extension(senders)
           /\ senders \in Nat /\ senders <= MaxSenders /\ Len(extensions) <= MaxExtensions
           /\ MaxSenders \in Nat /\ MaxExtensions \in Nat /\ MaxMachines \in Nat
<1> USE DEF TypeInv, DeploymentTypeOK
<1>1. extensions \in Seq(Extension(senders)) /\ home \in Seq(DOMAIN extensions)  BY DEF Extension
<1>2. /\ Len(extensions) \in Nat /\ DOMAIN extensions = 1..Len(extensions)
      /\ Len(home) \in Nat /\ DOMAIN home = 1..Len(home)
  BY <1>1, LenProperties
<1>3. \A e \in DOMAIN extensions : extensions[e] \in Extension(senders)
  BY <1>1, <1>2, ElementOfSeq
<1>4. \A m \in 1..Len(home) : home[m] \in DOMAIN extensions
  BY <1>1, <1>2, ElementOfSeq
<1>5. senders \in Nat /\ senders <= MaxSenders  BY BoundsAssumption
<1>. QED  BY <1>2, <1>3, <1>4, <1>5, BoundsAssumption DEF node

LEMMA IdleTyped ==
    /\ NoState \in States /\ Idle \in Ops /\ Idle.at = "idle" /\ Idle.known = NoState
    /\ Idle.sender = 0 /\ Idle.extension = 0 /\ Idle.tee = 0 /\ Idle.serving = 0
    /\ Idle.script = "none"
<1>1. NoState \in States  BY BoundsAssumption DEF NoState, NoCheck, States
<1>. QED  BY <1>1 DEF Idle, Ops, Scripts, Labels

(* A script that has ended needs nothing.                                  *)
LEMMA IdleOK ==
    ASSUME NEW s \in Nat, NEW e \in Nat, NEW n \in Nat
    PROVE  OpOK(Idle, s, e, n)
BY IdleTyped DEF OpOK, Building, Posting, Registering

(* A script moves on to a label, and nothing else of it changes.           *)
LEMMA GoTyped ==
    ASSUME op \in Ops, NEW label \in Labels
    PROVE  /\ Go(label) \in Ops /\ Go(label).at = label
           /\ Go(label).script = op.script /\ Go(label).sender = op.sender
           /\ Go(label).extension = op.extension /\ Go(label).serving = op.serving
           /\ Go(label).tee = op.tee /\ Go(label).command = op.command
           /\ Go(label).fresh = op.fresh /\ Go(label).known = op.known
BY DEF Go, Ops

(* The labels after one another in one part of a script need the same.     *)
LEMMA GoOK ==
    ASSUME NEW s \in Nat, NEW e \in Nat, NEW n \in Nat, OpOK(op, s, e, n), NEW label \in Labels,
           \/ op.at \in Building /\ label \in Building /\ op.extension # 0
           \/ op.at \in Registering /\ label \in Registering
           \/ op.at \in Registering /\ label \in Posting /\ op.script # "register-tee"
           \/ op.at \in Posting /\ label \in Posting \cup {"info"}
    PROVE  OpOK(Go(label), s, e, n)
<1>1. op \in Ops  BY DEF OpOK
<1>. QED  BY <1>1, GoTyped DEF OpOK, Building, Posting, Registering, Labels

LEMMA OpOKMonotone ==
    ASSUME NEW o, NEW s \in Nat, NEW e \in Nat, NEW n \in Nat, OpOK(o, s, e, n),
           NEW s2 \in Nat, NEW e2 \in Nat, NEW n2 \in Nat, s <= s2, e <= e2, n <= n2
    PROVE  OpOK(o, s2, e2, n2)
BY DEF OpOK, Ops

(* The chain's side of the state grows; the machines' side stays.          *)
LEMMA TypeChain ==
    ASSUME TypeInv, UNCHANGED <<trusted, machines, open, home, saved>>,
           senders' \in senders..MaxSenders,
           extensions' \in Seq(Extension(senders')),
           Len(extensions') \in Len(extensions)..MaxExtensions,
           extensionIdOf' \in [Senders -> 0..Len(extensions')],
           env' \in [exists : BOOLEAN, extension : 0..Len(extensions'), sender : 0..senders'],
           OpOK(op', senders', Len(extensions'), node)
    PROVE  TypeInv'
<1>1. /\ Len(extensions') \in Nat /\ DOMAIN extensions' = 1..Len(extensions')
      /\ DOMAIN extensions \subseteq DOMAIN extensions'
  BY LenProperties, TypeFacts
<1>2. home' \in Seq(DOMAIN extensions')  BY <1>1 DEF TypeInv, DeploymentTypeOK
<1>3. node' = node /\ node \in Nat  BY TypeFacts DEF node
<1>4. senders' \in 0..MaxSenders  BY TypeFacts
<1>5. op'.known \in States /\ op'.tee \in 0..node' /\ op'.serving \in 0..node'
  BY <1>3 DEF OpOK, Ops
<1>. QED  BY <1>1, <1>2, <1>3, <1>4, <1>5 DEF TypeInv, DeploymentTypeOK, Extension

(* The machines' side of the state changes; the chain's side stays.        *)
LEMMA TypeMachines ==
    ASSUME TypeInv, UNCHANGED <<senders, extensions, extensionIdOf, env>>,
           trusted' \in [Senders -> 0..Len(home')],
           machines' \in [Machines -> {"none", "registered", "production", "paused"}],
           home' \in Seq(DOMAIN extensions), Len(home') \in node..MaxMachines,
           open' \subseteq 1..Len(home'), saved' \in States,
           OpOK(op', senders, Len(extensions), Len(home'))
    PROVE  TypeInv'
<1>1. node' = Len(home') /\ node' \in Nat  BY TypeFacts DEF node
<1>2. op'.known \in States /\ op'.tee \in 0..node' /\ op'.serving \in 0..node'
  BY <1>1 DEF OpOK, Ops
<1>3. /\ senders' \in 0..MaxSenders /\ Len(extensions') <= MaxExtensions
      /\ extensions' \in Seq([sender : 1..senders', done : SUBSET (OwnerSetup \cup {"version"}),
                             governance : Governances \cup {"none"}])
      /\ extensionIdOf' \in [Senders -> 0..Len(extensions')]
      /\ env' \in [exists : BOOLEAN, extension : 0..Len(extensions'), sender : 0..senders']
  BY DEF TypeInv, DeploymentTypeOK
<1>4. /\ trusted' \in [Senders -> 0..node'] /\ open' \subseteq 1..node'
      /\ home' \in Seq(DOMAIN extensions') /\ node' <= MaxMachines
  BY <1>1, TypeFacts
<1>5. DeploymentTypeOK'  BY <1>2, <1>3, <1>4 DEF DeploymentTypeOK
<1>. QED  BY <1>1, <1>5 DEF TypeInv

(* Only the script in hand changes.                                        *)
LEMMA TypeScript ==
    ASSUME TypeInv, UNCHANGED <<senders, extensions, extensionIdOf, trusted, machines, open, home, env, saved>>,
           OpOK(op', senders, Len(extensions), node)
    PROVE  TypeInv'
<1>1. node' = node /\ node' \in Nat  BY TypeFacts DEF node
<1>2. op'.known \in States /\ op'.tee \in 0..node' /\ op'.serving \in 0..node'
  BY <1>1 DEF OpOK, Ops
<1>. QED  BY <1>1, <1>2 DEF TypeInv, DeploymentTypeOK

(* An extension's entry is replaced by one like it.                        *)
LEMMA ExtensionUpdated ==
    ASSUME TypeInv, NEW e \in DOMAIN extensions, NEW x \in Extension(senders),
           extensions' = [extensions EXCEPT ![e] = x]
    PROVE  /\ extensions' \in Seq(Extension(senders)) /\ Len(extensions') = Len(extensions)
           /\ DOMAIN extensions' = DOMAIN extensions
           /\ extensions'[e] = x
           /\ \A f \in DOMAIN extensions : f # e => extensions'[f] = extensions[f]
<1>1. extensions \in Seq(Extension(senders))  BY DEF TypeInv, DeploymentTypeOK, Extension
<1>2. e \in 1..Len(extensions)  BY TypeFacts
<1>3. /\ extensions' \in Seq(Extension(senders)) /\ Len(extensions') = Len(extensions)
      /\ \A f \in 1..Len(extensions) : extensions'[f] = IF f = e THEN x ELSE extensions[f]
  BY <1>1, <1>2, ExceptSeq
<1>. QED  BY <1>2, <1>3, TypeFacts, LenProperties

LEMMA ItemAdded ==
    ASSUME TypeInv, NEW e \in DOMAIN extensions, NEW item \in OwnerSetup \cup {"version"},
           extensions' = [extensions EXCEPT ![e].done = @ \cup {item}]
    PROVE  /\ extensions' \in Seq(Extension(senders)) /\ Len(extensions') = Len(extensions)
           /\ DOMAIN extensions' = DOMAIN extensions
           /\ \A f \in DOMAIN extensions :
                 /\ extensions'[f].sender = extensions[f].sender
                 /\ extensions[f].done \subseteq extensions'[f].done
           /\ item \in extensions'[e].done
<1> DEFINE x == [extensions[e] EXCEPT !.done = @ \cup {item}]
<1>1. extensions[e] \in Extension(senders)  BY TypeFacts
<1>2. /\ x \in Extension(senders) /\ x.sender = extensions[e].sender
      /\ x.done = extensions[e].done \cup {item}
  BY <1>1 DEF Extension
<1>3. extensions' = [extensions EXCEPT ![e] = x]  OBVIOUS
<1> HIDE DEF x
<1>4. /\ extensions' \in Seq(Extension(senders)) /\ Len(extensions') = Len(extensions)
      /\ extensions'[e] = x /\ DOMAIN extensions' = DOMAIN extensions
      /\ \A f \in DOMAIN extensions : f # e => extensions'[f] = extensions[f]
  BY <1>2, <1>3, ExtensionUpdated
<1>6. ASSUME NEW f \in DOMAIN extensions
      PROVE  extensions'[f].sender = extensions[f].sender /\ extensions[f].done \subseteq extensions'[f].done
  <2>1. CASE f = e  BY <1>2, <1>4, <2>1
  <2>2. CASE f # e  BY <1>4, <2>2
  <2>. QED  BY <2>1, <2>2
<1>7. item \in extensions'[e].done  BY <1>2, <1>4
<1>. QED  BY <1>4, <1>6, <1>7

LEMMA GovernanceSet ==
    ASSUME TypeInv, NEW e \in DOMAIN extensions, NEW g \in Governances,
           extensions' = [extensions EXCEPT ![e].governance = g]
    PROVE  /\ extensions' \in Seq(Extension(senders)) /\ Len(extensions') = Len(extensions)
           /\ DOMAIN extensions' = DOMAIN extensions
           /\ \A f \in DOMAIN extensions :
                 /\ extensions'[f].sender = extensions[f].sender
                 /\ extensions'[f].done = extensions[f].done
<1> DEFINE x == [extensions[e] EXCEPT !.governance = g]
<1>1. extensions[e] \in Extension(senders)  BY TypeFacts
<1>2. /\ x \in Extension(senders) /\ x.sender = extensions[e].sender
      /\ x.done = extensions[e].done
  BY <1>1 DEF Extension
<1>3. extensions' = [extensions EXCEPT ![e] = x]  OBVIOUS
<1> HIDE DEF x
<1>. QED  BY <1>2, <1>3, ExtensionUpdated, TypeFacts, LenProperties

-----------------------------------------------------------------------------
(* Starting a script, ending it, and going on without a change.            *)
LEMMA TypeStart ==
    ASSUME TypeInv,
           \/ StartPreBuild \/ StartPostBuild \/ StartRotation \/ Die
           \/ \E s \in Senders \cap RegisteredByHand : StartRegisterExtension(s)
           \/ \E command \in Commands, resume \in BOOLEAN : StartRegisterTee(command, resume)
    PROVE  TypeInv'
<1> USE TypeFacts, IdleTyped
<1>1. CASE Die
  BY <1>1, IdleOK, TypeScript DEF Die
<1>2. CASE StartPreBuild
  <2>1. op' = [script |-> "pre-build", at |-> "deploy", sender |-> 0, extension |-> 0, serving |-> 0,
               tee |-> 0, command |-> {}, fresh |-> FALSE, known |-> NoState]
    BY <1>2 DEF StartPreBuild, Idle
  <2>2. OpOK(op', senders, Len(extensions), node)
    BY <2>1 DEF OpOK, Ops, Scripts, Labels, Building, Posting, Registering
  <2>. QED  BY <1>2, <2>2, TypeScript DEF StartPreBuild
<1>3. ASSUME NEW script \in {"post-build", "rotate"}, NEW first \in {"version", "governance", "trust"},
             PostBuild(script, first)
      PROVE  TypeInv'
  <2>1. op' = [script |-> script, at |-> first, sender |-> 0, extension |-> 0, serving |-> node,
               tee |-> 0, command |-> {"r", "R", "a", "p"}, fresh |-> TRUE, known |-> NoState]
    BY <1>3 DEF PostBuild, Idle
  <2>2. op' \in Ops /\ op'.at = first /\ op'.script = script /\ op'.serving = node
        /\ op'.tee = 0 /\ op'.sender = 0 /\ op'.extension = 0
    BY <2>1 DEF Ops, Scripts, Labels, Posting, Letters
  <2>3. node # 0  BY <1>3 DEF PostBuild
  <2>4. OpOK(op', senders, Len(extensions), node)
    BY <2>2, <2>3 DEF OpOK, Building, Posting, Registering
  <2>. QED  BY <1>3, <2>4, TypeScript DEF PostBuild
<1>4. ASSUME NEW s \in Senders, StartRegisterExtension(s)
      PROVE  TypeInv'
  <2>1. op' = [script |-> "register-extension", at |-> "register", sender |-> s, extension |-> 0,
               serving |-> 0, tee |-> 0, command |-> {}, fresh |-> FALSE, known |-> NoState]
    BY <1>4 DEF StartRegisterExtension, Idle
  <2>2. s \in 1..senders
    <3>1. s <= senders  BY <1>4 DEF StartRegisterExtension
    <3>2. s \in 1..MaxSenders  BY DEF Senders
    <3>. QED  BY <3>1, <3>2
  <2>3. OpOK(op', senders, Len(extensions), node)
    BY <2>1, <2>2 DEF OpOK, Ops, Scripts, Labels, Building, Posting, Registering
  <2>. QED  BY <1>4, <2>3, TypeScript DEF StartRegisterExtension
<1>5. ASSUME NEW command \in Commands, NEW resume \in BOOLEAN, StartRegisterTee(command, resume)
      PROVE  TypeInv'
  <2>1. command \in SUBSET Letters  BY CommandsAssumption DEF Letters
  <2>2. op' = [script |-> "register-tee", at |-> "info", sender |-> 0, extension |-> 0, serving |-> 0,
               tee |-> 0, command |-> command, fresh |-> ~resume, known |-> NoState]
    BY <1>5 DEF StartRegisterTee, Idle
  <2>3. (~resume) \in BOOLEAN  BY ZenonT(20)
  <2>4. op' \in Ops /\ op'.at = "info" /\ op'.script = "register-tee" /\ op'.serving = 0
        /\ op'.tee = 0 /\ op'.sender = 0 /\ op'.extension = 0
    BY <2>1, <2>2, <2>3 DEF Ops, Scripts, Labels
  <2>5. node # 0  BY <1>5 DEF StartRegisterTee
  <2>6. OpOK(op', senders, Len(extensions), node)
    BY <2>4, <2>5 DEF OpOK, Building, Posting, Registering
  <2>. QED  BY <1>5, <2>6, TypeScript DEF StartRegisterTee
<1>6. CASE StartPostBuild  BY <1>3, <1>6 DEF StartPostBuild
<1>7. CASE StartRotation  BY <1>3, <1>7 DEF StartRotation
<1>. QED  BY <1>1, <1>2, <1>4, <1>5, <1>6, <1>7

(* pre-build.sh and register-extension.                                    *)
LEMMA TypeBuild ==
    ASSUME TypeInv,
           \/ DeployInstructionSender \/ registerExtension \/ WriteEnv
           \/ \E item \in OwnerSetup : SetupExtension(item)
    PROVE  TypeInv'
<1> USE TypeFacts
<1>0. /\ extensionIdOf \in [Senders -> 0..Len(extensions)]
      /\ env \in [exists : BOOLEAN, extension : 0..Len(extensions), sender : 0..senders]
      /\ extensions \in Seq(Extension(senders)) /\ op \in Ops
      /\ OpOK(op, senders, Len(extensions), node)
  BY DEF TypeInv, DeploymentTypeOK, Extension, OpOK
<1>1. CASE DeployInstructionSender
  <2>1. extensions' \in Seq(Extension(senders'))
    <3>1. Extension(senders) \subseteq Extension(senders + 1)  BY DEF Extension
    <3>. QED  BY <1>0, <1>1, <3>1 DEF DeployInstructionSender
  <2>2. OpOK(op', senders', Len(extensions), node)
    <3>1. op.at = "deploy" /\ op' = [Go("register") EXCEPT !.sender = senders'] /\ senders' = senders + 1
      BY <1>1 DEF DeployInstructionSender, At
    <3>2. op' \in Ops /\ op'.sender = senders' /\ op'.at = "register" /\ op'.script = op.script
          /\ op'.extension = op.extension /\ op'.tee = op.tee /\ op'.serving = op.serving
      <4>1. Go("register") \in Ops  BY <1>0, GoTyped DEF Labels, Building
      <4>2. senders' \in Nat  BY <3>1
      <4>. QED  BY <1>0, <3>1, <4>1, <4>2, GoTyped DEF Ops, Labels, Building
    <3>. QED  BY <1>0, <3>1, <3>2 DEF OpOK, Building, Posting, Registering
  <2>3. env' \in [exists : BOOLEAN, extension : 0..Len(extensions), sender : 0..senders']
    BY <1>0, <1>1 DEF DeployInstructionSender
  <2>4. UNCHANGED <<trusted, machines, open, home, saved, extensions, extensionIdOf>>
        /\ senders' \in senders..MaxSenders
    BY <1>1, BoundsAssumption DEF DeployInstructionSender
  <2>. QED  BY <1>0, <2>1, <2>2, <2>3, <2>4, TypeChain
<1>2. CASE registerExtension
  <2> DEFINE x == [sender |-> op.sender, done |-> {}, governance |-> "none"]
  <2>1. op.at = "register" /\ op.sender \in 1..senders  BY <1>0, <1>2 DEF registerExtension, At, OpOK, Building, Ops
  <2>2. x \in Extension(senders)  BY <2>1 DEF Extension
  <2>3. extensions' \in Seq(Extension(senders)) /\ Len(extensions') = Len(extensions) + 1
    BY <1>0, <1>2, <2>2, AppendProperties DEF registerExtension
  <2>4. OpOK(op', senders, Len(extensions'), node)
    <3>1. op' = [Go("machineOwner") EXCEPT !.extension = Len(extensions')]
      BY <1>2, <2>3 DEF registerExtension
    <3>2. op' \in Ops /\ op'.extension = Len(extensions') /\ op'.at = "machineOwner" /\ op'.script = op.script
          /\ op'.sender = op.sender /\ op'.tee = op.tee /\ op'.serving = op.serving
      <4>1. Go("machineOwner") \in Ops  BY <1>0, GoTyped DEF Labels, Building
      <4>2. Len(extensions') \in Nat  BY <2>3
      <4>. QED  BY <1>0, <3>1, <4>1, <4>2, GoTyped DEF Ops, Labels, Building
    <3>. QED  BY <1>0, <2>1, <2>3, <3>2 DEF OpOK, Building, Posting, Registering
  <2>5. env' \in [exists : BOOLEAN, extension : 0..Len(extensions'), sender : 0..senders']
    BY <1>0, <1>2, <2>3 DEF registerExtension
  <2>6. extensionIdOf' \in [Senders -> 0..Len(extensions')]
    BY <1>0, <1>2, <2>3 DEF registerExtension
  <2>7. Len(extensions') \in Len(extensions)..MaxExtensions  BY <1>2, <2>3, BoundsAssumption DEF registerExtension
  <2>. QED  BY <1>2, <2>3, <2>4, <2>5, <2>6, <2>7, TypeChain DEF registerExtension
<1>3. ASSUME NEW item \in OwnerSetup, SetupExtension(item)
      PROVE  TypeInv'
  <2>1. /\ op.at = item /\ op.extension \in DOMAIN extensions
        /\ AfterSetup(item) \in Building /\ AfterSetup(item) \in Labels /\ item \in Building
    BY <1>0, <1>3 DEF SetupExtension, At, OpOK, Building, OwnerSetup, AfterSetup, Labels, Ops
  <2>2. extensions' \in Seq(Extension(senders)) /\ Len(extensions') = Len(extensions)
    BY <1>3, <2>1, ItemAdded DEF SetupExtension
  <2>3. OpOK(op', senders, Len(extensions), node)
    BY <1>0, <1>3, <2>1, GoOK DEF SetupExtension
  <2>. QED  BY <1>0, <1>3, <2>2, <2>3, TypeChain DEF SetupExtension
<1>4. CASE WriteEnv
  <2>1. OpOK(op', senders, Len(extensions), node)  BY <1>4, IdleOK DEF WriteEnv
  <2>2. op.extension \in 0..Len(extensions) /\ op.sender \in 0..senders  BY <1>0 DEF OpOK, Ops
  <2>3. env' \in [exists : BOOLEAN, extension : 0..Len(extensions), sender : 0..senders]
    <3>1. CASE op.script = "pre-build"
      <4>1. PICK lines \in {<<0, 0>>, <<op.extension, 0>>, <<op.extension, op.sender>>} :
                env' = [exists |-> TRUE, extension |-> lines[1], sender |-> lines[2]]
        BY <1>4, <3>1 DEF WriteEnv
      <4>2. lines[1] \in 0..Len(extensions) /\ lines[2] \in 0..senders  BY <2>2
      <4>. QED  BY <4>1, <4>2
    <3>2. CASE op.script # "pre-build"  BY <1>0, <1>4, <3>2 DEF WriteEnv
    <3>. QED  BY <3>1, <3>2
  <2>. QED  BY <1>0, <1>4, <2>1, <2>3, TypeChain DEF WriteEnv
<1>. QED  BY <1>1, <1>2, <1>3, <1>4

-----------------------------------------------------------------------------
(* What a step of register-tee leaves when it is done.                     *)
LEMMA DoneTyped ==
    ASSUME op \in Ops, saved \in States, NEW letter \in {"r", "R", "a"}, NEW known \in States,
           Done(letter, known)
    PROVE  /\ op' \in Ops /\ op'.at = Next4(letter) /\ Next4(letter) \in Registering
           /\ op'.script = op.script /\ op'.sender = op.sender /\ op'.extension = op.extension
           /\ op'.serving = op.serving /\ op'.tee = op.tee /\ op'.command = op.command
           /\ op'.fresh = op.fresh /\ op'.known \in States
           /\ op'.known.steps = known.steps \cup {letter}
           /\ op'.known.attest = known.attest /\ op'.known.check = known.check
           /\ saved' \in {op'.known, saved} /\ saved' \in States
<1> DEFINE k == [known EXCEPT !.steps = @ \cup {letter}]
<1>1. /\ k \in States /\ k.steps = known.steps \cup {letter}
      /\ k.attest = known.attest /\ k.check = known.check
  BY DEF States
<1>2. Next4(letter) \in Registering /\ Next4(letter) \in Labels
  BY DEF Next4, Registering, Labels
<1>3. op' = [Go(Next4(letter)) EXCEPT !.known = k] /\ saved' \in {op'.known, saved}
  BY DEF Done
<1> HIDE DEF k
<1>4. Go(Next4(letter)) \in Ops  BY <1>2, GoTyped
<1>5. /\ op' \in Ops /\ op'.at = Next4(letter)
      /\ op'.script = op.script /\ op'.sender = op.sender /\ op'.extension = op.extension
      /\ op'.serving = op.serving /\ op'.tee = op.tee /\ op'.command = op.command
      /\ op'.fresh = op.fresh /\ op'.known = k
  BY <1>1, <1>2, <1>3, <1>4, GoTyped DEF Ops
<1>. QED  BY <1>1, <1>2, <1>3, <1>5

LEMMA DoneOK ==
    ASSUME TypeInv, NEW letter \in {"r", "R", "a"}, NEW known \in States,
           op.at \in Registering, Done(letter, known)
    PROVE  OpOK(op', senders, Len(extensions), node) /\ saved' \in States
<1>1. op \in Ops /\ saved \in States /\ OpOK(op, senders, Len(extensions), node)
  BY DEF TypeInv, DeploymentTypeOK, OpOK
<1>. QED  BY <1>1, DoneTyped DEF OpOK, Building, Posting, Registering

(* What a step at a label of register-tee may rely on.                     *)
LEMMA RegisteringFacts ==
    ASSUME TypeInv
    PROVE  /\ op \in Ops /\ OpOK(op, senders, Len(extensions), node)
           /\ op.known \in States /\ saved \in States
           /\ op.tee \in 0..node /\ op.serving \in 0..node
           /\ op.at \in Registering => op.tee \in 1..node /\ op.tee \in Machines
           /\ op.at \in Posting => node \in 1..node /\ home[node] \in DOMAIN extensions
           /\ trusted \in [Senders -> 0..node] /\ home \in Seq(DOMAIN extensions)
           /\ machines \in [Machines -> {"none", "registered", "production", "paused"}]
           /\ open \subseteq 1..node
<1>1. op \in Ops /\ OpOK(op, senders, Len(extensions), node)  BY DEF TypeInv, OpOK
<1>2. /\ op.known \in States /\ saved \in States
      /\ op.tee \in 0..node /\ op.serving \in 0..node
      /\ trusted \in [Senders -> 0..node] /\ home \in Seq(DOMAIN extensions)
      /\ machines \in [Machines -> {"none", "registered", "production", "paused"}]
      /\ open \subseteq 1..node
  BY DEF TypeInv, DeploymentTypeOK
<1>3. op.at \in Registering => op.tee # 0  BY <1>1 DEF OpOK
<1>4. op.at \in Registering => op.tee \in 1..node /\ op.tee \in Machines
  BY <1>2, <1>3, TypeFacts DEF Machines
<1>5. op.at \in Posting => node # 0  BY <1>1 DEF OpOK
<1>6. op.at \in Posting => node \in 1..node /\ home[node] \in DOMAIN extensions
  BY <1>5, TypeFacts
<1>. QED  BY <1>1, <1>2, <1>4, <1>6

(* The machine, and the steps of register-tee.                             *)
LEMMA TypeRegister ==
    ASSUME TypeInv,
           \/ StartNode \/ ReadTeeInfo \/ RegisterNode \/ Report
           \/ \E m \in Machines : ExpireChallenge(m)
    PROVE  TypeInv'
<1> USE TypeFacts, RegisteringFacts
<1>1. CASE StartNode
  <2>1. PICK e \in DOMAIN extensions : home' = Append(home, e)  BY <1>1 DEF StartNode
  <2>2. home' \in Seq(DOMAIN extensions) /\ Len(home') = node + 1  BY <2>1, AppendProperties
  <2>3. op' = op /\ OpOK(op', senders, Len(extensions), Len(home'))
    BY <1>1, <2>2, OpOKMonotone DEF StartNode
  <2>4. trusted' \in [Senders -> 0..Len(home')] /\ open' \subseteq 1..Len(home')
    BY <1>1, <2>2 DEF StartNode
  <2>. QED  BY <1>1, <2>2, <2>3, <2>4, TypeMachines DEF StartNode
<1>2. ASSUME NEW m \in Machines, ExpireChallenge(m)  PROVE TypeInv'
  BY <1>2, TypeMachines DEF ExpireChallenge
<1>3. CASE ReadTeeInfo
  <2>1. op.at = "info" /\ op' = [Go("r") EXCEPT !.tee = node, !.known = saved', !.fresh = (saved' = NoState)]
    BY <1>3 DEF ReadTeeInfo, At
  <2>2. saved' \in States  BY <1>3, IdleTyped DEF ReadTeeInfo, StateFiles
  <2>3. Go("r") \in Ops  BY GoTyped DEF Labels, Registering
  <2>4. (saved' = NoState) \in BOOLEAN  BY ZenonT(20)
  <2>5. op' \in Ops /\ op'.at = "r" /\ op'.tee = node /\ op'.script = op.script /\ op'.sender = op.sender
        /\ op'.extension = op.extension /\ op'.serving = op.serving
    BY <2>1, <2>2, <2>3, <2>4, GoTyped DEF Ops, Labels, Registering
  <2>6. OpOK(op', senders, Len(extensions), node)
    BY <2>1, <2>5 DEF OpOK, Building, Posting, Registering
  <2>. QED  BY <1>3, <2>2, <2>6, TypeMachines DEF ReadTeeInfo
<1>4. ASSUME NEW letter \in {"r", "R", "a", "p"}, SkipStep(letter)  PROVE TypeInv'
  <2>1. Next4(letter) \in Registering /\ Next4(letter) \in Labels /\ op.at \in Registering
    BY <1>4 DEF SkipStep, At, Next4, Registering, Labels
  <2>2. OpOK(op', senders, Len(extensions), node)  BY <1>4, <2>1, GoOK DEF SkipStep
  <2>. QED  BY <1>4, <2>2, TypeScript DEF SkipStep
<1>5. ASSUME NEW letter \in {"r", "R"}, NEW attest \in 1..node, op.at \in Registering,
             Done(letter, [op.known EXCEPT !.attest = attest])
      PROVE  OpOK(op', senders, Len(extensions), node) /\ saved' \in States
  <2>1. attest \in 0..MaxMachines  OBVIOUS
  <2>2. [op.known EXCEPT !.attest = attest] \in States  BY <2>1 DEF States
  <2>. QED  BY <1>5, <2>2, DoneOK
<1>6. CASE PreRegistration
  <2>1. op.at = "r" /\ op.at \in Registering  BY <1>6 DEF PreRegistration, At, Registering
  <2>2. OpOK(op', senders, Len(extensions), node) /\ saved' \in States
    BY <1>5, <1>6, <2>1 DEF PreRegistration
  <2>3. machines' \in [Machines -> {"none", "registered", "production", "paused"}]
        /\ open' \subseteq 1..node
    BY <1>6, <2>1 DEF PreRegistration
  <2>. QED  BY <1>6, <2>2, <2>3, TypeMachines DEF PreRegistration
<1>7. ASSUME NEW letter \in {"r", "R"}, RequestTeeAttestation(letter)  PROVE TypeInv'
  <2>1. op.at \in Registering  BY <1>7 DEF RequestTeeAttestation, At, Registering
  <2>2. OpOK(op', senders, Len(extensions), node) /\ saved' \in States
    BY <1>5, <1>7, <2>1 DEF RequestTeeAttestation
  <2>3. open' \subseteq 1..node  BY <1>7, <2>1 DEF RequestTeeAttestation
  <2>. QED  BY <1>7, <2>2, <2>3, TypeMachines DEF RequestTeeAttestation
<1>8. CASE RequestFTDCAvailabilityCheck
  <2>1. op.at = "a" /\ op.at \in Registering  BY <1>8 DEF RequestFTDCAvailabilityCheck, At, Registering
  <2>2. PICK cosigned \in BOOLEAN :
            Done("a", [op.known EXCEPT !.check = [tee |-> op.tee, cosigned |-> cosigned]])
    BY <1>8 DEF RequestFTDCAvailabilityCheck, Cosigned
  <2>3. op.tee \in 0..MaxMachines  BY <2>1
  <2>4. [op.known EXCEPT !.check = [tee |-> op.tee, cosigned |-> cosigned]] \in States
    BY <2>3 DEF States
  <2>5. OpOK(op', senders, Len(extensions), node) /\ saved' \in States
    BY <2>1, <2>2, <2>4, DoneOK
  <2>. QED  BY <1>8, <2>5, TypeMachines DEF RequestFTDCAvailabilityCheck
<1>9. CASE ToProduction
  <2>1. op.at \in Registering  BY <1>9 DEF ToProduction, At, Registering
  <2>2. OpOK(op', senders, Len(extensions), node)
    BY <1>9, <2>1, GoOK DEF ToProduction, Registering, Labels
  <2>3. machines' \in [Machines -> {"none", "registered", "production", "paused"}]
    BY <1>9 DEF ToProduction
  <2>. QED  BY <1>9, <2>2, <2>3, TypeMachines DEF ToProduction
<1>10. CASE RemoveState
  <2>1. op.at \in Registering  BY <1>10 DEF RemoveState, At, Registering
  <2>2. OpOK(op', senders, Len(extensions), node)
    BY <1>10, <2>1, GoOK DEF RemoveState, Registering, Labels
  <2>3. saved' \in States  BY <1>10, IdleTyped DEF RemoveState
  <2>. QED  BY <1>10, <2>2, <2>3, TypeMachines DEF RemoveState
<1>11. CASE Report
  <2>1. op.at = "report" /\ op.at \in Registering  BY <1>11 DEF Report, At, Registering
  <2>2. OpOK(op', senders, Len(extensions), node)
    BY <1>11, <2>1, GoOK, IdleOK DEF Report, Posting, Labels
  <2>. QED  BY <1>11, <2>2, TypeScript DEF Report
<1>. QED  BY <1>1, <1>2, <1>3, <1>4, <1>6, <1>7, <1>8, <1>9, <1>10, <1>11 DEF RegisterNode

(* A set of naturals that is not empty has a smallest element.             *)
LEMMA SmallestOf ==
    ASSUME NEW T, T \subseteq Nat, T # {}
    PROVE  \E x \in T : \A y \in T : x <= y
<1>1. PICK x \in T : \A y \in T : <<y, x>> \notin OpToRel(<, Nat)
  BY NatLessThanWellFounded, WFMin
<1>2. \A y \in T : ~(y < x)  BY <1>1 DEF OpToRel
<1>. QED  BY <1>2

(* setExtensionId finds the first extension that names the contract.       *)
LEMMA FindExtensionFirst ==
    ASSUME TypeInv, NEW s, Naming(s) # {}
    PROVE  /\ FindExtension(s) \in Naming(s) /\ FindExtension(s) \in 1..Len(extensions)
           /\ \A f \in Naming(s) : FindExtension(s) <= f
<1>1. Naming(s) \subseteq 1..Len(extensions) /\ Naming(s) \subseteq Nat  BY TypeFacts DEF Naming
<1>2. \E e \in Naming(s) : \A f \in Naming(s) : e <= f  BY <1>1, SmallestOf
<1>. QED  BY <1>1, <1>2 DEF FindExtension

(* post-build.sh and rotate.mjs.                                           *)
LEMMA TypePost ==
    ASSUME TypeInv,
           \/ AllowTeeVersion \/ SetExtensionId \/ Trust \/ Retire
           \/ \E m \in Machines \cap RetiredByHand : RetireByHand(m)
           \/ \E g \in Governances : SetTeeGovernance(g)
    PROVE  TypeInv'
<1> USE TypeFacts, RegisteringFacts
<1>0. /\ extensionIdOf \in [Senders -> 0..Len(extensions)]
      /\ env \in [exists : BOOLEAN, extension : 0..Len(extensions), sender : 0..senders]
      /\ extensions \in Seq(Extension(senders))
  BY DEF TypeInv, DeploymentTypeOK, Extension
<1>1. ASSUME op.at \in Posting, NEW label \in Posting \cup {"info"}, op' = Go(label)
      PROVE  OpOK(op', senders, Len(extensions), node)
  BY <1>1, GoOK DEF Labels
<1>2. CASE AllowTeeVersion
  <2>1. op.at \in Posting /\ op' = Go("governance")  BY <1>2 DEF AllowTeeVersion, At, Posting
  <2>2. extensions' \in Seq(Extension(senders)) /\ Len(extensions') = Len(extensions)
    BY <1>2, <2>1, ItemAdded DEF AllowTeeVersion
  <2>3. OpOK(op', senders, Len(extensions), node)  BY <1>1, <2>1 DEF Posting
  <2>. QED  BY <1>0, <1>2, <2>2, <2>3, TypeChain DEF AllowTeeVersion
<1>3. ASSUME NEW g \in Governances, SetTeeGovernance(g)  PROVE TypeInv'
  <2>1. op.at \in Posting /\ op' = Go("info")  BY <1>3 DEF SetTeeGovernance, At, Posting
  <2>2. extensions' \in Seq(Extension(senders)) /\ Len(extensions') = Len(extensions)
    BY <1>3, <2>1, GovernanceSet DEF SetTeeGovernance
  <2>3. OpOK(op', senders, Len(extensions), node)  BY <1>1, <2>1
  <2>. QED  BY <1>0, <1>3, <2>2, <2>3, TypeChain DEF SetTeeGovernance
<1>4. CASE SetExtensionId
  <2>1. op.at \in Posting /\ (op' = Idle \/ op' = Go("trust"))
    BY <1>4 DEF SetExtensionId, At, Posting, AfterPostBuild
  <2>2. OpOK(op', senders, Len(extensions), node)  BY <1>1, <2>1, IdleOK DEF Posting
  <2>3. FindExtension(env.sender) \in 0..Len(extensions)
    <3>1. Naming(env.sender) = {} => FindExtension(env.sender) = 0  BY DEF FindExtension
    <3>. QED  BY <3>1, FindExtensionFirst
  <2>4. extensionIdOf' \in [Senders -> 0..Len(extensions)]
    BY <1>0, <1>4, <2>3 DEF SetExtensionId
  <2>. QED  BY <1>0, <1>4, <2>2, <2>4, TypeChain DEF SetExtensionId
<1>5. CASE Trust
  <2>1. op.at \in Posting /\ op' = Go("retire")  BY <1>5 DEF Trust, At, Posting
  <2>2. OpOK(op', senders, Len(extensions), node)  BY <1>1, <2>1 DEF Posting
  <2>3. trusted' \in [Senders -> 0..node]  BY <1>5 DEF Trust
  <2>. QED  BY <1>5, <2>2, <2>3, TypeMachines DEF Trust
<1>6. CASE Retire
  <2>1. OpOK(op', senders, Len(extensions), node)  BY <1>6, IdleOK DEF Retire
  <2>2. machines' \in [Machines -> {"none", "registered", "production", "paused"}]
    BY <1>6 DEF Retire, RetireMachine
  <2>. QED  BY <1>6, <2>1, <2>2, TypeMachines DEF Retire
<1>7. ASSUME NEW m \in Machines, RetireByHand(m)  PROVE TypeInv'
  <2>1. OpOK(op', senders, Len(extensions), node)  BY <1>7 DEF RetireByHand, TypeInv
  <2>2. machines' \in [Machines -> {"none", "registered", "production", "paused"}]
    BY <1>7 DEF RetireByHand, RetireMachine
  <2>. QED  BY <1>7, <2>1, <2>2, TypeMachines DEF RetireByHand
<1>. QED  BY <1>2, <1>3, <1>4, <1>5, <1>6, <1>7

LEMMA TypeInit == DeploymentInit => TypeInv
<1> SUFFICES ASSUME DeploymentInit PROVE TypeInv  OBVIOUS
<1> USE BoundsAssumption, IdleTyped DEF DeploymentInit
<1>1. Len(extensions) = 0 /\ node = 0 /\ senders = 0 /\ DOMAIN extensions = {}  BY DEF node
<1>2. OpOK(op, senders, Len(extensions), node)  BY <1>1, IdleOK
<1>3. DeploymentTypeOK
  BY <1>1 DEF DeploymentTypeOK, Senders, Machines, NoEnv
<1>. QED  BY <1>2, <1>3 DEF TypeInv

LEMMA TypeStay == TypeInv /\ UNCHANGED vars => TypeInv'
<1> SUFFICES ASSUME TypeInv, UNCHANGED vars PROVE TypeInv'  OBVIOUS
<1>. QED  BY TypeScript DEF TypeInv, vars

LEMMA TypeStep == TypeInv /\ [DeploymentNext]_vars => TypeInv'
<1> SUFFICES ASSUME TypeInv, [DeploymentNext]_vars PROVE TypeInv'  OBVIOUS
<1>1. CASE UNCHANGED vars  BY <1>1, TypeStay
<1>2. CASE DeploymentNext
  BY <1>2, TypeStart, TypeBuild, TypeRegister, TypePost DEF DeploymentNext, ScriptStep
<1>. QED  BY <1>1, <1>2

(* Every step of every script keeps the registry, the files and the        *)
(* machines within what the next script, whichever it is, can read.        *)
THEOREM DeploymentTyped == DeploymentSpec => []DeploymentTypeOK
<1>1. TypeInv => DeploymentTypeOK  BY DEF TypeInv
<1>. QED  BY TypeInit, TypeStep, <1>1, PTL DEF DeploymentSpec

-----------------------------------------------------------------------------
(***************************************************************************)
(* A complete extension.env.  The invariant says the same of a pre-build   *)
(* that is under way: the contract it deployed has no extension, then the  *)
(* one it registered as its first, with a piece of the setup at each label;*)
(* and of every id a contract has taken: it is its first extension, which  *)
(* no later registration can change.                                       *)
(***************************************************************************)
First(s, e) == e \in Naming(s) /\ \A f \in Naming(s) : e <= f

SetupDone(at) == CASE at = "machineOwner" -> {}
                   [] at = "projectOwner" -> {"machineOwner"}
                   [] at = "keyType" -> {"machineOwner", "projectOwner"}
                   [] at = "write" -> OwnerSetup

EnvNamed == Complete => First(env.sender, env.extension) /\ OwnerSetup \subseteq extensions[env.extension].done
IdsFirst == \A s \in Senders : extensionIdOf[s] # 0 => First(s, extensionIdOf[s])
Posted == op.script \in {"post-build", "rotate"} => Complete
PreBuilding ==
    op.script = "pre-build" =>
        /\ op.at = "register" => Naming(op.sender) = {}
        /\ op.at \in Building \ {"register"} =>
              First(op.sender, op.extension) /\ SetupDone(op.at) \subseteq extensions[op.extension].done

EnvInv == EnvNamed /\ IdsFirst /\ Posted /\ PreBuilding

(* The registry only grows, and what it says of a sender stays.            *)
Grows ==
    /\ DOMAIN extensions \subseteq DOMAIN extensions'
    /\ \A e \in DOMAIN extensions : /\ extensions'[e].sender = extensions[e].sender
                                    /\ extensions[e].done \subseteq extensions'[e].done
    /\ \A e \in DOMAIN extensions' \ DOMAIN extensions : e = Len(extensions) + 1

FirstIn(table, s, e) ==
    /\ e \in DOMAIN table /\ table[e].sender = s
    /\ \A f \in DOMAIN table : table[f].sender = s => e <= f

LEMMA FirstKept ==
    ASSUME TypeInv, Grows, NEW s, NEW e, First(s, e)
    PROVE  FirstIn(extensions', s, e) /\ extensions[e].done \subseteq extensions'[e].done
<1>1. e \in DOMAIN extensions /\ extensions[e].sender = s  BY DEF First, Naming
<1>2. ASSUME NEW f \in DOMAIN extensions', extensions'[f].sender = s  PROVE e <= f
  <2>1. CASE f \in DOMAIN extensions  BY <1>2, <2>1 DEF Naming, Grows, First
  <2>2. CASE f \notin DOMAIN extensions
    <3>1. f = Len(extensions) + 1  BY <1>2, <2>2 DEF Grows
    <3>. QED  BY <1>1, <3>1, TypeFacts
  <2>. QED  BY <2>1, <2>2
<1>. QED  BY <1>1, <1>2 DEF FirstIn, Grows

(* The one added last is the first when no other names the sender.         *)
LEMMA FirstAdded ==
    ASSUME NEW table, NEW n \in Nat, NEW s, DOMAIN table = 1..(n + 1), table[n + 1].sender = s,
           \A e \in 1..n : table[e].sender # s
    PROVE  FirstIn(table, s, n + 1)
BY DEF FirstIn

(* Whatever grows the registry, the file and the ids keep naming.          *)
LEMMA NamedKept ==
    ASSUME TypeInv, EnvInv, Grows
    PROVE  /\ env' = env => EnvNamed'
           /\ extensionIdOf' = extensionIdOf => IdsFirst'
<1>1. ASSUME env' = env  PROVE EnvNamed'
  <2>1. SUFFICES ASSUME Complete' PROVE First(env.sender, env.extension)' /\ OwnerSetup \subseteq extensions'[env.extension].done
    BY <1>1 DEF EnvNamed, First, Naming
  <2>2. Complete  BY <1>1, <2>1 DEF Complete
  <2>3. FirstIn(extensions', env.sender, env.extension)
        /\ OwnerSetup \subseteq extensions'[env.extension].done
    BY <2>2, FirstKept DEF EnvInv, EnvNamed
  <2>. QED  BY <1>1, <2>3 DEF First, Naming, FirstIn
<1>2. ASSUME extensionIdOf' = extensionIdOf  PROVE IdsFirst'
  <2>1. SUFFICES ASSUME NEW s \in Senders, extensionIdOf[s] # 0 PROVE First(s, extensionIdOf[s])'
    BY <1>2 DEF IdsFirst, First, Naming
  <2>2. FirstIn(extensions', s, extensionIdOf[s])  BY <2>1, FirstKept DEF EnvInv, IdsFirst
  <2>. QED  BY <1>2, <2>2 DEF First, Naming, FirstIn
<1>. QED  BY <1>1, <1>2

(* Outside pre-build.sh, and before it has deployed.                       *)
LEMMA EnvElsewhere ==
    ASSUME TypeInv, EnvInv, Grows, UNCHANGED <<extensionIdOf, env>>,
           \/ op'.script \notin {"pre-build", "post-build", "rotate"}
           \/ op'.script = "pre-build" /\ op'.at = "deploy"
           \/ op'.script \in {"post-build", "rotate"} /\ (op'.script = op.script \/ Complete)
    PROVE  EnvInv'
<1>1. EnvNamed' /\ IdsFirst'  BY NamedKept
<1>2. Posted'  BY DEF Posted, Complete, EnvInv
<1>3. PreBuilding'  BY DEF PreBuilding, Building
<1>. QED  BY <1>1, <1>2, <1>3 DEF EnvInv

LEMMA GrowsSame == ASSUME TypeInv, extensions' = extensions PROVE Grows
BY DEF Grows

LEMMA EnvBuild ==
    ASSUME TypeInv, EnvInv,
           \/ DeployInstructionSender \/ registerExtension \/ WriteEnv
           \/ \E item \in OwnerSetup : SetupExtension(item)
    PROVE  EnvInv'
<1> USE TypeFacts, RegisteringFacts
<1>1. CASE DeployInstructionSender
  <2>1. /\ UNCHANGED <<extensions, extensionIdOf, env>> /\ op.script = "pre-build"
        /\ op'.script = "pre-build" /\ op'.at = "register" /\ op'.sender = senders + 1
    BY <1>1, GoTyped DEF DeployInstructionSender, At, OpOK, Labels, Building, Ops
  <2>2. EnvNamed' /\ IdsFirst'  BY <2>1, NamedKept, GrowsSame
  <2>3. ASSUME NEW e \in DOMAIN extensions PROVE extensions[e].sender # senders + 1
    <3>1. extensions[e].sender \in 1..senders  BY DEF Extension
    <3>. QED  BY <3>1
  <2>4. Naming(op.sender)' = {}  BY <2>1, <2>3 DEF Naming
  <2>. QED  BY <2>1, <2>2, <2>4 DEF EnvInv, Posted, PreBuilding, Building
<1>2. CASE registerExtension
  <2> DEFINE x == [sender |-> op.sender, done |-> {}, governance |-> "none"]
             n == Len(extensions)
  <2>1. /\ UNCHANGED <<extensionIdOf, env>> /\ extensions' = Append(extensions, x) /\ op.at = "register"
        /\ op'.at = "machineOwner" /\ op'.script = op.script /\ op'.sender = op.sender
        /\ op'.extension = n + 1
    BY <1>2, GoTyped DEF registerExtension, At, Labels, Building, Ops
  <2>2. /\ DOMAIN extensions' = 1..(n + 1) /\ extensions'[n + 1] = x
        /\ \A e \in 1..n : extensions'[e] = extensions[e]
    <3>1. IsSequence(extensions)  BY DEF TypeInv, DeploymentTypeOK, IsSequence
    <3>. QED  BY <2>1, <3>1, SequenceAppend, SequenceDomain
  <2>3. Grows  BY <2>2 DEF Grows
  <2>4. EnvNamed' /\ IdsFirst'  BY <2>1, <2>3, NamedKept
  <2>5. op.script \in {"pre-build", "register-extension"}  BY <2>1 DEF OpOK, Building
  <2>6. ASSUME op.script = "pre-build"  PROVE First(op.sender, op.extension)'
    <3>1. Naming(op.sender) = {}  BY <2>1, <2>6 DEF EnvInv, PreBuilding
    <3>2. \A e \in 1..n : extensions'[e].sender # op.sender  BY <2>2, <3>1, TypeFacts DEF Naming
    <3>3. n \in Nat /\ extensions'[n + 1].sender = op.sender  BY <2>2, TypeFacts
    <3>4. FirstIn(extensions', op.sender, n + 1)
      <4> HIDE DEF n, x
      <4>. QED  BY <2>2, <3>2, <3>3, FirstAdded
    <3>. QED  BY <2>1, <3>4 DEF First, Naming, FirstIn
  <2>. QED  BY <2>1, <2>4, <2>5, <2>6 DEF EnvInv, Posted, PreBuilding, Building, SetupDone
<1>3. ASSUME NEW item \in OwnerSetup, SetupExtension(item)
      PROVE  EnvInv'
  <2>1. /\ op.at = item /\ op.extension \in DOMAIN extensions
        /\ op.script \in {"pre-build", "register-extension"}
    BY <1>3 DEF SetupExtension, At, OpOK, Building, OwnerSetup, Ops
  <2>2. /\ UNCHANGED <<extensionIdOf, env>>
        /\ op'.at = AfterSetup(item) /\ op'.script = op.script /\ op'.sender = op.sender
        /\ op'.extension = op.extension
    BY <1>3, GoTyped DEF SetupExtension, AfterSetup, OwnerSetup, Labels, Building
  <2>3. Grows /\ item \in extensions'[op.extension].done
    BY <1>3, <2>1, ItemAdded DEF SetupExtension, Grows
  <2>4. EnvNamed' /\ IdsFirst'  BY <2>2, <2>3, NamedKept
  <2>5. ASSUME op.script = "pre-build"
        PROVE  First(op.sender, op.extension)' /\ SetupDone(op'.at) \subseteq extensions'[op'.extension].done
    <3>1. First(op.sender, op.extension) /\ SetupDone(item) \subseteq extensions[op.extension].done
      BY <2>1, <2>5 DEF EnvInv, PreBuilding, Building, OwnerSetup
    <3>2. FirstIn(extensions', op.sender, op.extension)
          /\ extensions[op.extension].done \subseteq extensions'[op.extension].done
      BY <2>3, <3>1, FirstKept
    <3>3. First(op.sender, op.extension)'  BY <2>2, <3>2 DEF First, Naming, FirstIn
    <3>4. SetupDone(AfterSetup(item)) = SetupDone(item) \cup {item}
      BY DEF SetupDone, AfterSetup, OwnerSetup
    <3>. QED  BY <2>2, <2>3, <3>1, <3>2, <3>3, <3>4
  <2>6. op'.at # "register"  BY <2>2 DEF AfterSetup, OwnerSetup
  <2>. QED  BY <2>1, <2>2, <2>4, <2>5, <2>6 DEF EnvInv, Posted, PreBuilding
<1>4. CASE WriteEnv
  <2>1. /\ UNCHANGED <<extensions, extensionIdOf>> /\ op' = Idle /\ op.at = "write"
    BY <1>4 DEF WriteEnv, At
  <2>2. IdsFirst'  BY <2>1, NamedKept, GrowsSame
  <2>3. Posted' /\ PreBuilding'  BY <2>1, IdleTyped DEF Posted, PreBuilding
  <2>4. EnvNamed'
    <3>1. CASE op.script = "pre-build"
      <4>1. PICK lines \in {<<0, 0>>, <<op.extension, 0>>, <<op.extension, op.sender>>} :
                env' = [exists |-> TRUE, extension |-> lines[1], sender |-> lines[2]]
        BY <1>4, <3>1 DEF WriteEnv
      <4>2. CASE Complete'
        <5>1. env'.sender = op.sender /\ env'.extension = op.extension
          BY <4>1, <4>2 DEF Complete
        <5>2. First(op.sender, op.extension) /\ SetupDone("write") \subseteq extensions[op.extension].done
          BY <2>1, <3>1 DEF EnvInv, PreBuilding, Building
        <5>. QED  BY <2>1, <5>1, <5>2 DEF EnvNamed, SetupDone, First, Naming
      <4>. QED  BY <4>2 DEF EnvNamed
    <3>2. CASE op.script # "pre-build"
      BY <1>4, <2>1, <3>2, NamedKept, GrowsSame DEF WriteEnv
    <3>. QED  BY <3>1, <3>2
  <2>. QED  BY <2>2, <2>3, <2>4 DEF EnvInv
<1>. QED  BY <1>1, <1>2, <1>3, <1>4

LEMMA EnvStart ==
    ASSUME TypeInv, EnvInv,
           \/ StartPreBuild \/ StartPostBuild \/ StartRotation \/ Die
           \/ \E s \in Senders \cap RegisteredByHand : StartRegisterExtension(s)
           \/ \E command \in Commands, resume \in BOOLEAN : StartRegisterTee(command, resume)
    PROVE  EnvInv'
<1>1. Grows /\ UNCHANGED <<extensionIdOf, env>>
  BY GrowsSame DEF StartPreBuild, StartPostBuild, StartRotation, PostBuild, Die,
                   StartRegisterExtension, StartRegisterTee
<1>2. \/ op'.script \in {"none", "register-extension", "register-tee"}
      \/ op'.script = "pre-build" /\ op'.at = "deploy"
      \/ op'.script \in {"post-build", "rotate"} /\ Complete
  BY IdleTyped DEF StartPreBuild, StartPostBuild, StartRotation, PostBuild, Die,
                   StartRegisterExtension, StartRegisterTee, Idle
<1>. QED  BY <1>1, <1>2, EnvElsewhere

(* What no step of register-tee changes.                                   *)
LEMMA RegisterKeeps ==
    ASSUME TypeInv, ReadTeeInfo \/ RegisterNode
    PROVE  /\ UNCHANGED <<senders, extensions, extensionIdOf, trusted, home, env>>
           /\ op'.script = op.script /\ op'.serving = op.serving /\ op'.command = op.command
           /\ RegisterNode => op'.tee = op.tee /\ op'.fresh = op.fresh /\ op.at \in Registering
           /\ ReadTeeInfo => /\ op.at = "info" /\ op'.at = "r" /\ op'.tee = node
                             /\ op'.known = saved' /\ op'.fresh = (saved' = NoState)
<1> USE TypeFacts, RegisteringFacts
<1>1. CASE ReadTeeInfo
  <2>1. op.at = "info" /\ op' = [Go("r") EXCEPT !.tee = node, !.known = saved', !.fresh = (saved' = NoState)]
    BY <1>1 DEF ReadTeeInfo, At
  <2>2. op'.script = op.script /\ op'.serving = op.serving /\ op'.command = op.command /\ op'.at = "r"
        /\ op'.tee = node /\ op'.known = saved' /\ op'.fresh = (saved' = NoState)
    <3>1. Go("r") \in Ops  BY GoTyped DEF Labels, Registering
    <3>. QED  BY <2>1, <3>1, GoTyped DEF Ops, Labels, Registering
  <2>3. op'.at # "remove" /\ ~RegisterNode
    BY <2>1, <2>2 DEF RegisterNode, SkipStep, PreRegistration, RequestTeeAttestation,
                     RequestFTDCAvailabilityCheck, ToProduction, RemoveState, At
  <2>. QED  BY <1>1, <2>1, <2>2, <2>3 DEF ReadTeeInfo
<1>2. ASSUME op.at \in Registering, NEW label \in Registering, op' = Go(label)
      PROVE  /\ op'.script = op.script /\ op'.serving = op.serving /\ op'.command = op.command
             /\ op'.tee = op.tee /\ op'.fresh = op.fresh /\ op.at # "info"
  BY <1>2, GoTyped DEF Labels, Registering
<1>3. ASSUME op.at \in Registering, NEW letter \in {"r", "R", "a"}, NEW known \in States, Done(letter, known)
      PROVE  /\ op'.script = op.script /\ op'.serving = op.serving /\ op'.command = op.command
             /\ op'.tee = op.tee /\ op'.fresh = op.fresh /\ op.at # "info"
  BY <1>3, DoneTyped DEF Registering
<1>4. ASSUME NEW letter \in {"r", "R", "a", "p"}, SkipStep(letter)
      PROVE  op.at \in Registering /\ Next4(letter) \in Registering
  BY <1>4 DEF SkipStep, At, Next4, Registering
<1>5. ASSUME NEW letter \in {"r", "R"}
      PROVE  op.tee \in 0..MaxMachines /\ [op.known EXCEPT !.attest = op.tee] \in States
  <2>1. op.tee \in 0..MaxMachines  OBVIOUS
  <2>. QED  BY <2>1 DEF States
<1>6. ASSUME NEW cosigned \in BOOLEAN
      PROVE  [op.known EXCEPT !.check = [tee |-> op.tee, cosigned |-> cosigned]] \in States
  <2>1. op.tee \in 0..MaxMachines  OBVIOUS
  <2>. QED  BY <2>1 DEF States
<1>7. CASE PreRegistration
  BY <1>3, <1>5, <1>7 DEF PreRegistration, At, Registering, ReadTeeInfo
<1>8. ASSUME NEW letter \in {"r", "R"}, RequestTeeAttestation(letter)
      PROVE  op.at \in Registering /\ Done(letter, [op.known EXCEPT !.attest = op.tee])
             /\ UNCHANGED <<senders, extensions, extensionIdOf, trusted, home, env>>
  BY <1>8 DEF RequestTeeAttestation, At, Registering
<1>9. CASE RequestFTDCAvailabilityCheck
  <2>1. /\ op.at = "a" /\ UNCHANGED <<senders, extensions, extensionIdOf, trusted, home, env>>
        /\ \E cosigned \in BOOLEAN :
               Done("a", [op.known EXCEPT !.check = [tee |-> op.tee, cosigned |-> cosigned]])
    BY <1>9 DEF RequestFTDCAvailabilityCheck, Cosigned, At
  <2>. QED  BY <1>3, <1>6, <2>1 DEF Registering, ReadTeeInfo, At
<1>10. CASE ToProduction \/ RemoveState
  <2>1. /\ op.at \in {"p", "remove"} /\ UNCHANGED <<senders, extensions, extensionIdOf, trusted, home, env>>
        /\ op' = Go("remove") \/ op' = Go("report")
    BY <1>10 DEF ToProduction, RemoveState, At
  <2>. QED  BY <1>2, <2>1 DEF Registering, ReadTeeInfo, At
<1>11. CASE \E letter \in {"r", "R", "a", "p"} : SkipStep(letter)
  BY <1>2, <1>4, <1>11 DEF SkipStep, ReadTeeInfo, At
<1>12. CASE \E letter \in {"r", "R"} : RequestTeeAttestation(letter)
  BY <1>3, <1>5, <1>8, <1>12 DEF ReadTeeInfo, At
<1>. QED  BY <1>1, <1>7, <1>9, <1>10, <1>11, <1>12 DEF RegisterNode

LEMMA EnvRegister ==
    ASSUME TypeInv, EnvInv,
           \/ ReadTeeInfo \/ RegisterNode \/ Report
           \/ AllowTeeVersion \/ SetExtensionId \/ Trust \/ Retire
           \/ \E g \in Governances : SetTeeGovernance(g)
    PROVE  EnvInv'
<1> USE TypeFacts, RegisteringFacts
<1>1. ASSUME op.at \in Posting \cup Registering \cup {"info"}, op'.script \in {op.script, "none"},
             Grows, UNCHANGED <<extensionIdOf, env>>
      PROVE  EnvInv'
  <2>1. op.script \in {"post-build", "rotate", "register-tee"}  BY <1>1 DEF OpOK
  <2>. QED  BY <1>1, <2>1, EnvElsewhere
<1>2. CASE AllowTeeVersion
  <2>1. op.at = "version" /\ op' = Go("governance")  BY <1>2 DEF AllowTeeVersion, At
  <2>2. Grows  BY <1>2, <2>1, ItemAdded DEF AllowTeeVersion, Posting, Grows
  <2>. QED  BY <1>1, <1>2, <2>1, <2>2, GoTyped DEF AllowTeeVersion, Posting, Labels
<1>3. ASSUME NEW g \in Governances, SetTeeGovernance(g)  PROVE EnvInv'
  <2>1. op.at = "governance" /\ op' = Go("info")  BY <1>3 DEF SetTeeGovernance, At
  <2>2. Grows  BY <1>3, <2>1, GovernanceSet DEF SetTeeGovernance, Posting, Grows
  <2>. QED  BY <1>1, <1>3, <2>1, <2>2, GoTyped DEF SetTeeGovernance, Posting, Labels
<1>4. CASE ReadTeeInfo \/ RegisterNode
  BY <1>1, <1>4, RegisterKeeps, GrowsSame
<1>5. CASE Report \/ Trust
  <2>1. /\ op.at \in {"report", "trust"} /\ UNCHANGED <<extensions, extensionIdOf, env>>
        /\ op' \in {Idle, Go("setId"), Go("retire")}
    BY <1>5 DEF Report, Trust, At
  <2>. QED  BY <1>1, <2>1, GrowsSame, GoTyped, IdleTyped DEF Posting, Registering, Labels
<1>6. CASE Retire
  BY <1>1, <1>6, GrowsSame, IdleTyped DEF Retire, At, Posting
<1>7. CASE SetExtensionId
  <2>1. /\ op.at = "setId" /\ UNCHANGED <<extensions, env>> /\ op' \in {Idle, Go("trust")}
    BY <1>7 DEF SetExtensionId, AfterPostBuild, At
  <2>2. op'.script \in {"none", op.script} /\ op.script \in {"post-build", "rotate"}
    BY <2>1, GoTyped, IdleTyped DEF OpOK, Posting, Labels
  <2>3. Posted' /\ PreBuilding'
    BY <2>1, <2>2 DEF EnvInv, Posted, PreBuilding, Complete
  <2>4. EnvNamed'  BY <2>1, NamedKept, GrowsSame
  <2>5. IdsFirst'
    <3>1. CASE extensionIdOf' = extensionIdOf  BY <2>1, <3>1, NamedKept, GrowsSame
    <3>2. CASE extensionIdOf' # extensionIdOf
      <4>1. /\ extensionIdOf' = [extensionIdOf EXCEPT ![env.sender] = FindExtension(env.sender)]
            /\ FindExtension(env.sender) # 0
        BY <1>7, <3>2 DEF SetExtensionId
      <4>2. Naming(env.sender) # {}  BY <4>1 DEF FindExtension
      <4>3. First(env.sender, FindExtension(env.sender))  BY <4>2, FindExtensionFirst DEF First
      <4>4. ASSUME NEW s \in Senders, extensionIdOf'[s] # 0
            PROVE  First(s, extensionIdOf'[s])
        <5>1. extensionIdOf \in [Senders -> 0..Len(extensions)]  BY DEF TypeInv, DeploymentTypeOK
        <5>2. CASE s = env.sender  BY <4>1, <4>3, <5>1, <5>2
        <5>3. CASE s # env.sender  BY <4>1, <4>4, <5>1, <5>3 DEF EnvInv, IdsFirst
        <5>. QED  BY <5>2, <5>3
      <4>. QED  BY <2>1, <4>4 DEF IdsFirst, First, Naming
    <3>. QED  BY <3>1, <3>2
  <2>. QED  BY <2>3, <2>4, <2>5 DEF EnvInv
<1>. QED  BY <1>2, <1>3, <1>4, <1>5, <1>6, <1>7

LEMMA EnvInit == DeploymentInit => EnvInv
BY IdleTyped DEF DeploymentInit, EnvInv, EnvNamed, IdsFirst, Posted, PreBuilding, Complete, NoEnv

LEMMA EnvStep == TypeInv /\ EnvInv /\ [DeploymentNext]_vars => EnvInv'
<1> SUFFICES ASSUME TypeInv, EnvInv, [DeploymentNext]_vars PROVE EnvInv'  OBVIOUS
<1>1. ASSUME UNCHANGED <<extensions, extensionIdOf, env, op>>  PROVE EnvInv'
  BY <1>1 DEF EnvInv, EnvNamed, IdsFirst, Posted, PreBuilding, Complete, First, Naming
<1>2. CASE \/ UNCHANGED vars \/ StartNode \/ \E m \in Machines : ExpireChallenge(m)
           \/ \E m \in Machines \cap RetiredByHand : RetireByHand(m)
  BY <1>1, <1>2 DEF vars, StartNode, ExpireChallenge, RetireByHand
<1>. QED  BY <1>2, EnvStart, EnvBuild, EnvRegister DEF DeploymentNext, ScriptStep

(* A complete extension.env names a fully set up extension of the contract *)
(* it names, and setExtensionId on that contract finds that extension and  *)
(* no other, whatever pre-builds died before and whatever extensions were  *)
(* registered by hand since.                                               *)
THEOREM EnvCorrect == DeploymentSpec => []EnvNamesContractsExtension
<1>1. ASSUME TypeInv, EnvInv, Complete
      PROVE  /\ OwnerSetup \subseteq extensions[env.extension].done
             /\ extensions[env.extension].sender = env.sender
             /\ FindExtension(env.sender) = env.extension
             /\ extensionIdOf[env.sender] \in {0, env.extension}
  <2>1. First(env.sender, env.extension) /\ OwnerSetup \subseteq extensions[env.extension].done
    BY <1>1 DEF EnvInv, EnvNamed
  <2>2. /\ Naming(env.sender) # {} /\ env.extension \in 1..Len(extensions)
        /\ extensions[env.extension].sender = env.sender
    BY <1>1, <2>1, TypeFacts DEF First, Naming
  <2>3. ASSUME NEW e, First(env.sender, e)  PROVE e = env.extension
    <3>1. e \in 1..Len(extensions)  BY <1>1, <2>3, TypeFacts DEF First, Naming
    <3>2. e <= env.extension /\ env.extension <= e  BY <2>1, <2>3 DEF First
    <3>. QED  BY <1>1, <2>2, <3>1, <3>2, TypeFacts
  <2>4. FindExtension(env.sender) = env.extension
    BY <1>1, <2>2, <2>3, FindExtensionFirst DEF First
  <2>5. env.sender \in Senders
    BY <1>1, TypeFacts DEF TypeInv, DeploymentTypeOK, Complete, Senders
  <2>6. extensionIdOf[env.sender] # 0 => extensionIdOf[env.sender] = env.extension
    BY <1>1, <2>3, <2>5 DEF EnvInv, IdsFirst
  <2>. QED  BY <2>1, <2>2, <2>4, <2>6
<1>2. TypeInv /\ EnvInv => EnvNamesContractsExtension  BY <1>1 DEF EnvNamesContractsExtension
<1>. QED  BY TypeInit, TypeStep, EnvInit, EnvStep, <1>2, PTL DEF DeploymentSpec

-----------------------------------------------------------------------------
(***************************************************************************)
(* What register-tee's last line says.  A machine that has served has done *)
(* so for good; a run that began without a state file asks the result of   *)
(* the check it made itself, of the machine it read at its start; so the   *)
(* run that was asked for p and is past it has put that machine into       *)
(* production.                                                             *)
(***************************************************************************)
(* The only steps that change a machine's status.                          *)
LEMMA MachineSteps ==
    ASSUME [DeploymentNext]_vars
    PROVE  \/ machines' = machines \/ PreRegistration \/ ToProduction \/ Retire
           \/ \E m \in Machines \cap RetiredByHand : RetireByHand(m)
<1>1. ASSUME NEW letter \in {"r", "R", "a", "p"}, SkipStep(letter) \/ RequestTeeAttestation(letter)
      PROVE  machines' = machines
  BY <1>1 DEF SkipStep, RequestTeeAttestation
<1>2. CASE RegisterNode
  BY <1>1, <1>2 DEF RegisterNode, RequestFTDCAvailabilityCheck, RemoveState
<1>3. CASE UNCHANGED vars \/ StartNode \/ Die \/ \E m \in Machines : ExpireChallenge(m)
  BY <1>3 DEF vars, StartNode, Die, ExpireChallenge, RetireByHand
<1>4. CASE \/ StartPreBuild \/ StartPostBuild \/ StartRotation
           \/ \E s \in Senders \cap RegisteredByHand : StartRegisterExtension(s)
           \/ \E command \in Commands, resume \in BOOLEAN : StartRegisterTee(command, resume)
  BY <1>4 DEF StartPreBuild, StartPostBuild, StartRotation, PostBuild,
              StartRegisterExtension, StartRegisterTee
<1>5. CASE \/ DeployInstructionSender \/ registerExtension \/ WriteEnv \/ AllowTeeVersion
           \/ SetExtensionId \/ Trust \/ ReadTeeInfo \/ Report
  BY <1>5 DEF DeployInstructionSender, registerExtension, WriteEnv, AllowTeeVersion,
              SetExtensionId, Trust, ReadTeeInfo, Report
<1>6. CASE \/ \E item \in OwnerSetup : SetupExtension(item)
           \/ \E g \in Governances : SetTeeGovernance(g)
  BY <1>6 DEF SetupExtension, SetTeeGovernance
<1>. QED  BY <1>2, <1>3, <1>4, <1>5, <1>6 DEF DeploymentNext, ScriptStep

Served == {"production", "paused"}

(* What each of them does to the machines, one by one.                     *)
LEMMA MachineChanges ==
    ASSUME TypeInv, [DeploymentNext]_vars, NEW m \in Machines
    PROVE  /\ machines[m] \in Served => machines'[m] \in Served
           /\ machines'[m] \in Served => \/ machines[m] \in Served
                                         \/ ToProduction /\ m = op.known.check.tee /\ op.known.check.cosigned
           /\ machines[m] = "none" => machines'[m] = "none" \/ (PreRegistration /\ m = op.tee)
           /\ machines'[m] = "none" => machines[m] = "none"
           /\ machines'[m] = "production" => \/ machines[m] = "production"
                                             \/ ToProduction /\ m = op.known.check.tee
<1>0. machines \in [Machines -> {"none", "registered", "production", "paused"}]
  BY RegisteringFacts
<1>1. CASE machines' = machines  BY <1>1
<1>2. CASE PreRegistration
  BY <1>0, <1>2 DEF PreRegistration, Served
<1>3. CASE ToProduction
  <2>1. op.known.check.cosigned /\ Check.tee = op.known.check.tee
    BY <1>3 DEF ToProduction, Check, NoCheck
  <2>. QED  BY <1>0, <1>3, <2>1 DEF ToProduction, Served
<1>4. CASE Retire \/ \E n \in Machines \cap RetiredByHand : RetireByHand(n)
  <2>1. \/ machines' = machines
        \/ \E stray \in Machines : machines[stray] = "production"
                                   /\ machines' = [machines EXCEPT ![stray] = "paused"]
    <3>1. CASE Retire
      BY <1>0, <3>1, TypeFacts DEF Retire, RetireMachine, Strays, Active, Machines
    <3>2. CASE \E n \in Machines \cap RetiredByHand : RetireByHand(n)
      BY <3>2 DEF RetireByHand, RetireMachine
    <3>. QED  BY <1>4, <3>1, <3>2
  <2>. QED  BY <1>0, <2>1 DEF Served
<1>. QED  BY <1>1, <1>2, <1>3, <1>4, MachineSteps

FreshInv ==
    op.fresh /\ op.at \in Registering =>
        /\ op.known.check.cosigned => op.known.check.tee = op.tee
        /\ op.at \in {"remove", "report"} /\ "p" \in op.command => HasServed(op.tee)

(* The steps that are not a step of register-tee leave it alone, or end    *)
(* it.                                                                     *)
LEMMA OtherSteps ==
    ASSUME TypeInv, [DeploymentNext]_vars
    PROVE  ReadTeeInfo \/ RegisterNode \/ op' = op \/ op'.at \notin Registering
<1> USE RegisteringFacts DEF Registering
<1>1. CASE \/ UNCHANGED vars \/ StartNode \/ Die \/ \E m \in Machines : ExpireChallenge(m)
           \/ \E m \in Machines \cap RetiredByHand : RetireByHand(m)
  BY <1>1, IdleTyped DEF vars, StartNode, Die, ExpireChallenge, RetireByHand
<1>2. CASE \/ StartPreBuild \/ StartPostBuild \/ StartRotation
           \/ \E s \in Senders \cap RegisteredByHand : StartRegisterExtension(s)
           \/ \E command \in Commands, resume \in BOOLEAN : StartRegisterTee(command, resume)
  BY <1>2 DEF StartPreBuild, StartPostBuild, StartRotation, PostBuild,
              StartRegisterExtension, StartRegisterTee, Idle
<1>3. CASE DeployInstructionSender
  <2>1. Go("register") \in Ops /\ Go("register").at = "register"  BY GoTyped DEF Labels, Building
  <2>. QED  BY <1>3, <2>1 DEF DeployInstructionSender, Ops
<1>4. CASE registerExtension
  <2>1. Go("machineOwner") \in Ops /\ Go("machineOwner").at = "machineOwner"
    BY GoTyped DEF Labels, Building
  <2>. QED  BY <1>4, <2>1 DEF registerExtension, Ops
<1>5. ASSUME NEW item \in OwnerSetup, SetupExtension(item)  PROVE op'.at \notin Registering
  <2>1. AfterSetup(item) \in Building  BY DEF AfterSetup, OwnerSetup, Building
  <2>. QED  BY <1>5, <2>1, GoTyped DEF SetupExtension, Labels, Building
<1>6. CASE WriteEnv \/ Report \/ SetExtensionId \/ Trust \/ Retire \/ AllowTeeVersion
           \/ \E g \in Governances : SetTeeGovernance(g)
  <2>1. op' \in {op, Idle, Go("setId"), Go("trust"), Go("retire"), Go("governance"), Go("info")}
    BY <1>6 DEF WriteEnv, Report, SetExtensionId, AfterPostBuild, Trust, Retire,
                AllowTeeVersion, SetTeeGovernance
  <2>. QED  BY <2>1, IdleTyped, GoTyped DEF Labels, Posting
<1>. QED  BY <1>1, <1>2, <1>3, <1>4, <1>5, <1>6 DEF DeploymentNext, ScriptStep

(* A step of register-tee at its label: what is known of the check, and    *)
(* what the file is left with.                                             *)
LEMMA RegisterSteps ==
    ASSUME TypeInv, RegisterNode
    PROVE  /\ op.at \in Registering /\ op'.at \in Registering
           /\ \/ op'.known.check = op.known.check
              \/ /\ RequestFTDCAvailabilityCheck /\ op'.known.check.tee = op.tee
                 /\ "a" \notin op.known.steps /\ "a" \in op'.known.steps
           /\ op.known.steps \subseteq op'.known.steps
           /\ saved' \in {saved, op'.known, NoState}
           /\ op'.at \in {"remove", "report"} /\ "p" \in op.command =>
                 ToProduction \/ op.at \in {"remove", "report"}
<1> USE TypeFacts, RegisteringFacts
<1>1. ASSUME NEW letter \in {"r", "R", "a", "p"}, SkipStep(letter)
      PROVE  /\ op.at = letter /\ op'.at = Next4(letter) /\ Next4(letter) \in Registering
             /\ op'.known = op.known /\ saved' = saved
             /\ letter = "p" => "p" \notin op.command
  <2>1. op.at = letter /\ op' = Go(Next4(letter)) /\ Next4(letter) \in Registering
        /\ Next4(letter) \in Labels
    BY <1>1 DEF SkipStep, At, Next4, Registering, Labels
  <2>2. letter = "p" => "p" \notin op.command  BY <1>1 DEF SkipStep, Needed, States
  <2>. QED  BY <1>1, <2>1, <2>2, GoTyped DEF SkipStep
<1>2. CASE \E letter \in {"r", "R", "a", "p"} : SkipStep(letter)
  <2>1. PICK letter \in {"r", "R", "a", "p"} : SkipStep(letter)  BY <1>2
  <2>. QED  BY <1>1, <2>1 DEF Next4, Registering
<1>3. ASSUME NEW letter \in {"r", "R"}, op.at = letter,
             Done(letter, [op.known EXCEPT !.attest = op.tee])
      PROVE  /\ op'.at \in {"R", "a"} /\ op'.known.check = op.known.check
             /\ op.known.steps \subseteq op'.known.steps /\ saved' \in {op'.known, saved}
  <2> DEFINE known == [op.known EXCEPT !.attest = op.tee]
  <2>1. op.tee \in 0..MaxMachines  OBVIOUS
  <2>2. known \in States /\ known.check = op.known.check /\ known.steps = op.known.steps
    BY <2>1 DEF States
  <2> HIDE DEF known
  <2>3. Done(letter, known)  BY <1>3 DEF known
  <2>4. op'.at = Next4(letter) /\ op'.known.steps = known.steps \cup {letter}
        /\ op'.known.check = known.check /\ saved' \in {op'.known, saved}
    BY <2>2, <2>3, DoneTyped
  <2>. QED  BY <2>2, <2>4 DEF Next4
<1>4. CASE PreRegistration
  BY <1>3, <1>4 DEF PreRegistration, At, Registering
<1>5. CASE \E letter \in {"r", "R"} : RequestTeeAttestation(letter)
  BY <1>3, <1>5 DEF RequestTeeAttestation, At, Registering
<1>6. CASE RequestFTDCAvailabilityCheck
  <2>1. PICK cosigned \in BOOLEAN :
            Done("a", [op.known EXCEPT !.check = [tee |-> op.tee, cosigned |-> cosigned]])
    BY <1>6 DEF RequestFTDCAvailabilityCheck, Cosigned
  <2> DEFINE known == [op.known EXCEPT !.check = [tee |-> op.tee, cosigned |-> cosigned]]
  <2>2. op.tee \in 0..MaxMachines  OBVIOUS
  <2>3. known \in States /\ known.check.tee = op.tee /\ known.steps = op.known.steps
    BY <2>2 DEF States
  <2> HIDE DEF known
  <2>4. Done("a", known)  BY <2>1 DEF known
  <2>5. op'.at = "p" /\ op'.known.steps = known.steps \cup {"a"}
        /\ op'.known.check = known.check /\ saved' \in {op'.known, saved}
    BY <2>3, <2>4, DoneTyped DEF Next4
  <2>6. op.at = "a" /\ "a" \notin op.known.steps
    BY <1>6 DEF RequestFTDCAvailabilityCheck, At, Needed
  <2>. QED  BY <1>6, <2>3, <2>5, <2>6 DEF Registering
<1>7. CASE ToProduction
  <2>1. op.at = "p" /\ op' = Go("remove") /\ saved' = saved  BY <1>7 DEF ToProduction, At
  <2>. QED  BY <1>7, <2>1, GoTyped DEF Registering, Labels
<1>8. CASE RemoveState
  <2>1. op.at = "remove" /\ op' = Go("report") /\ saved' \in {NoState, saved}
    BY <1>8 DEF RemoveState, At
  <2>. QED  BY <2>1, GoTyped DEF Registering, Labels
<1>. QED  BY <1>2, <1>4, <1>5, <1>6, <1>7, <1>8 DEF RegisterNode

LEMMA FreshStep == TypeInv /\ FreshInv /\ [DeploymentNext]_vars => FreshInv'
<1> SUFFICES ASSUME TypeInv, FreshInv, [DeploymentNext]_vars, op'.fresh, op'.at \in Registering
             PROVE  /\ op'.known.check.cosigned => op'.known.check.tee = op'.tee
                    /\ op'.at \in {"remove", "report"} /\ "p" \in op'.command => machines'[op'.tee] \in Served
  BY DEF FreshInv, HasServed, Served
<1> USE RegisteringFacts
<1>1. CASE op' = op
  BY <1>1, MachineChanges DEF FreshInv, HasServed, Served
<1>2. CASE ReadTeeInfo
  <2>1. op'.at = "r" /\ (op'.fresh) = (saved' = NoState) /\ op'.known = saved'
    <3>1. Go("r") \in Ops  BY GoTyped DEF Labels, Registering
    <3>2. op' = [Go("r") EXCEPT !.tee = node, !.known = saved', !.fresh = (saved' = NoState)]
      BY <1>2 DEF ReadTeeInfo
    <3>3. op'.at = "r" /\ op'.known = saved'  BY <3>1, <3>2, GoTyped DEF Ops, Labels, Registering
    <3>4. (op'.fresh) = (saved' = NoState)  BY <1>2, RegisterKeeps
    <3>. QED  BY <3>3, <3>4
  <2>2. op'.known = NoState  BY <2>1
  <2>3. ~op'.known.check.cosigned  BY <2>2 DEF NoState, NoCheck
  <2>. QED  BY <2>1, <2>3
<1>3. CASE RegisterNode
  <2>1. op'.tee = op.tee /\ op'.fresh = op.fresh /\ op'.command = op.command /\ op.at \in Registering
    BY <1>3, RegisterKeeps
  <2>2. op'.known.check.cosigned => op'.known.check.tee = op.tee
    BY <1>3, <2>1, RegisterSteps DEF FreshInv
  <2>3. ASSUME op'.at \in {"remove", "report"}, "p" \in op.command
        PROVE  machines'[op.tee] \in Served
    <3>1. CASE ToProduction
      <4>1. Check.cosigned /\ Check = op.known.check /\ op.known.check.tee = op.tee
        BY <2>1, <3>1 DEF ToProduction, Check, NoCheck, FreshInv
      <4>. QED  BY <2>1, <3>1, <4>1 DEF ToProduction, Served
    <3>2. CASE op.at \in {"remove", "report"}
      BY <2>1, <2>3, <3>2, MachineChanges DEF FreshInv, HasServed, Served
    <3>. QED  BY <1>3, <2>3, <3>1, <3>2, RegisterSteps
  <2>. QED  BY <2>1, <2>2, <2>3
<1>. QED  BY <1>1, <1>2, <1>3, OtherSteps

(* "Registered TEE node with id" is true of the machine it names, when the *)
(* run began without a state file and was asked to go to production.       *)
THEOREM FreshReport == DeploymentSpec => []FreshReportIsTrue
<1>1. DeploymentInit => FreshInv
  BY IdleTyped DEF DeploymentInit, FreshInv, Registering
<1>2. FreshInv => FreshReportIsTrue
  BY DEF FreshInv, FreshReportIsTrue, Reported, At, Registering
<1>. QED  BY TypeInit, TypeStep, FreshStep, <1>1, <1>2, PTL DEF DeploymentSpec

-----------------------------------------------------------------------------
(***************************************************************************)
(* What takes a working desk down.  Three steps could.  Trust could name a *)
(* machine read earlier: but no contract trusts a machine younger than the *)
(* one a post-build or rotation in progress began with.  A rotation could  *)
(* retire the machine that answers: but if the contract trusts that one,   *)
(* the rotation began with it for the same reason, and it is no stray.     *)
(* ToProduction could put a second machine in the set, through a result    *)
(* left in a state file: but no machine that has served is younger than    *)
(* the one of any cosigned check that is still known, so when the youngest *)
(* serves, the check is of that machine, and the registry refuses it.      *)
(***************************************************************************)
CheckOK(K) ==
    K.check.cosigned =>
        /\ "a" \in K.steps
        /\ \A m \in Machines : machines[m] \in Served => m <= K.check.tee

ServingInv ==
    /\ \A m \in Machines : m > node => machines[m] = "none"
    /\ op.at \in Registering => \A m \in Machines : m > op.tee => machines[m] = "none"
    /\ op.script \in {"post-build", "rotate"} => \A s \in Senders : trusted[s] <= op.serving
    /\ CheckOK(op.known) /\ CheckOK(saved)
    /\ op.at \in Registering /\ saved.check.cosigned => saved.check = op.known.check

(* Only StartNode changes the machine that answers, and it starts one more.*)
LEMMA NodeSteps ==
    ASSUME TypeInv, [DeploymentNext]_vars
    PROVE  node' \in Nat /\ node <= node'
<1>1. TypeInv'  BY TypeStep
<1>2. node' \in Nat
  BY <1>1 DEF TypeInv, DeploymentTypeOK, node
<1>3. home' \in {home} \cup {Append(home, e) : e \in DOMAIN extensions}
  <2>1. CASE \/ UNCHANGED vars \/ StartNode \/ Die \/ \E m \in Machines : ExpireChallenge(m)
             \/ \E m \in Machines \cap RetiredByHand : RetireByHand(m)
    BY <2>1 DEF vars, StartNode, Die, ExpireChallenge, RetireByHand
  <2>2. CASE \/ StartPreBuild \/ StartPostBuild \/ StartRotation
             \/ \E s \in Senders \cap RegisteredByHand : StartRegisterExtension(s)
             \/ \E command \in Commands, resume \in BOOLEAN : StartRegisterTee(command, resume)
    BY <2>2 DEF StartPreBuild, StartPostBuild, StartRotation, PostBuild,
                StartRegisterExtension, StartRegisterTee
  <2>3. CASE \/ DeployInstructionSender \/ registerExtension \/ WriteEnv \/ AllowTeeVersion
             \/ SetExtensionId \/ Trust \/ Retire \/ Report
             \/ \E item \in OwnerSetup : SetupExtension(item)
             \/ \E g \in Governances : SetTeeGovernance(g)
    BY <2>3 DEF DeployInstructionSender, registerExtension, WriteEnv, AllowTeeVersion,
                SetExtensionId, Trust, Retire, Report, SetupExtension, SetTeeGovernance
  <2>4. CASE ReadTeeInfo \/ RegisterNode  BY <2>4, RegisterKeeps
  <2>. QED  BY <2>1, <2>2, <2>3, <2>4 DEF DeploymentNext, ScriptStep
<1>4. node' \in {node, node + 1}
  BY <1>3, RegisteringFacts, AppendProperties DEF node
<1>. QED  BY <1>2, <1>4, TypeFacts

(* Outside register-tee nothing new is known, and its file is not touched. *)
LEMMA KnownSteps ==
    ASSUME TypeInv, [DeploymentNext]_vars, ~ReadTeeInfo, ~RegisterNode
    PROVE  op'.known \in {op.known, NoState} /\ saved' = saved
<1> USE RegisteringFacts, IdleTyped
<1>1. CASE \/ UNCHANGED vars \/ StartNode \/ Die \/ \E m \in Machines : ExpireChallenge(m)
           \/ \E m \in Machines \cap RetiredByHand : RetireByHand(m)
  BY <1>1 DEF vars, StartNode, Die, ExpireChallenge, RetireByHand
<1>2. CASE \/ StartPreBuild \/ StartPostBuild \/ StartRotation
           \/ \E s \in Senders \cap RegisteredByHand : StartRegisterExtension(s)
           \/ \E command \in Commands, resume \in BOOLEAN : StartRegisterTee(command, resume)
  BY <1>2 DEF StartPreBuild, StartPostBuild, StartRotation, PostBuild,
              StartRegisterExtension, StartRegisterTee, Idle
<1>3. CASE DeployInstructionSender
  <2>1. Go("register") \in Ops /\ Go("register").known = op.known  BY GoTyped DEF Labels, Building
  <2>. QED  BY <1>3, <2>1 DEF DeployInstructionSender, Ops
<1>4. CASE registerExtension
  <2>1. Go("machineOwner") \in Ops /\ Go("machineOwner").known = op.known
    BY GoTyped DEF Labels, Building
  <2>. QED  BY <1>4, <2>1 DEF registerExtension, Ops
<1>5. ASSUME NEW item \in OwnerSetup, SetupExtension(item)
      PROVE  op'.known = op.known /\ saved' = saved
  <2>1. AfterSetup(item) \in Building  BY DEF AfterSetup, OwnerSetup, Building
  <2>. QED  BY <1>5, <2>1, GoTyped DEF SetupExtension, Labels
<1>6. CASE WriteEnv \/ Report \/ SetExtensionId \/ Trust \/ Retire \/ AllowTeeVersion
           \/ \E g \in Governances : SetTeeGovernance(g)
  <2>1. op' \in {op, Idle, Go("setId"), Go("trust"), Go("retire"), Go("governance"), Go("info")}
        /\ saved' = saved
    BY <1>6 DEF WriteEnv, Report, SetExtensionId, AfterPostBuild, Trust, Retire,
                AllowTeeVersion, SetTeeGovernance
  <2>. QED  BY <2>1, GoTyped DEF Labels, Posting
<1>. QED  BY <1>1, <1>2, <1>3, <1>4, <1>5, <1>6 DEF DeploymentNext, ScriptStep

(* The machine a post-build or a rotation began with, and whom the         *)
(* contracts trust.                                                        *)
LEMMA TrustSteps ==
    ASSUME TypeInv, [DeploymentNext]_vars
    PROVE  /\ trusted' = trusted \/ Trust
           /\ op'.script \in {"post-build", "rotate"} =>
                 \/ trusted' = trusted /\ op'.serving = node
                 \/ op'.script = op.script /\ op'.serving = op.serving
<1> USE RegisteringFacts, IdleTyped
<1>1. CASE \/ UNCHANGED vars \/ StartNode \/ Die \/ \E m \in Machines : ExpireChallenge(m)
           \/ \E m \in Machines \cap RetiredByHand : RetireByHand(m)
  BY <1>1 DEF vars, StartNode, Die, ExpireChallenge, RetireByHand
<1>2. CASE StartPostBuild \/ StartRotation
  BY <1>2 DEF StartPostBuild, StartRotation, PostBuild, Idle
<1>3. CASE \/ StartPreBuild
           \/ \E s \in Senders \cap RegisteredByHand : StartRegisterExtension(s)
           \/ \E command \in Commands, resume \in BOOLEAN : StartRegisterTee(command, resume)
  BY <1>3 DEF StartPreBuild, StartRegisterExtension, StartRegisterTee, Idle
<1>4. CASE \/ DeployInstructionSender \/ registerExtension
           \/ \E item \in OwnerSetup : SetupExtension(item)
  <2>1. op.at \in {"deploy"} \cup (Building \ {"write"}) /\ trusted' = trusted
    BY <1>4 DEF DeployInstructionSender, registerExtension, SetupExtension, At, Building, OwnerSetup
  <2>2. op.script \in {"pre-build", "register-extension"}  BY <2>1 DEF OpOK, Building
  <2>3. op'.script = op.script
    <3>1. CASE DeployInstructionSender  BY <3>1 DEF DeployInstructionSender, Go, Ops
    <3>2. CASE registerExtension  BY <3>2 DEF registerExtension, Go, Ops
    <3>3. ASSUME NEW item \in OwnerSetup, SetupExtension(item)  PROVE op'.script = op.script
      BY <3>3 DEF SetupExtension, Go, Ops
    <3>. QED  BY <1>4, <3>1, <3>2, <3>3
  <2>. QED  BY <2>1, <2>2, <2>3
<1>5. CASE WriteEnv \/ Report \/ SetExtensionId \/ Trust \/ Retire \/ AllowTeeVersion
           \/ \E g \in Governances : SetTeeGovernance(g)
  <2>1. op' \in {op, Idle, Go("setId"), Go("trust"), Go("retire"), Go("governance"), Go("info")}
    BY <1>5 DEF WriteEnv, Report, SetExtensionId, AfterPostBuild, Trust, Retire,
                AllowTeeVersion, SetTeeGovernance
  <2>2. trusted' = trusted \/ Trust
    BY <1>5 DEF WriteEnv, Report, SetExtensionId, Retire, AllowTeeVersion, SetTeeGovernance
  <2>3. op'.script \in {op.script, "none"} /\ op'.serving \in {op.serving, 0}
    BY <2>1, GoTyped DEF Labels, Posting
  <2>4. op'.script = "none" \/ op'.serving = op.serving
    BY <2>1, GoTyped DEF Labels, Posting
  <2>. QED  BY <2>2, <2>3, <2>4
<1>6. CASE ReadTeeInfo \/ RegisterNode  BY <1>6, RegisterKeeps
<1>. QED  BY <1>1, <1>2, <1>3, <1>4, <1>5, <1>6 DEF DeploymentNext, ScriptStep

LEMMA ServingStep == TypeInv /\ ServingInv /\ [DeploymentNext]_vars => ServingInv'
<1> SUFFICES ASSUME TypeInv, ServingInv, [DeploymentNext]_vars PROVE ServingInv'  OBVIOUS
<1> USE RegisteringFacts, TypeFacts
<1>0. TypeInv'  BY TypeStep
<1>1. ASSUME NEW m \in Machines, m > node'  PROVE machines'[m] = "none"
  <2>1. m > node /\ machines[m] = "none"  BY <1>1, NodeSteps DEF ServingInv, Machines
  <2>2. ~(PreRegistration /\ m = op.tee)  BY <2>1 DEF Machines
  <2>. QED  BY <2>1, <2>2, MachineChanges
<1>2. ASSUME op'.at \in Registering, NEW m \in Machines, m > op'.tee  PROVE machines'[m] = "none"
  <2>1. CASE ReadTeeInfo
    BY <1>2, <2>1, RegisterKeeps DEF ReadTeeInfo, ServingInv
  <2>2. CASE op' = op \/ RegisterNode
    <3>1. op'.tee = op.tee /\ op.at \in Registering  BY <1>2, <2>2, RegisterKeeps
    <3>2. machines[m] = "none" /\ m # op.tee  BY <1>2, <3>1 DEF ServingInv, Machines
    <3>. QED  BY <3>2, MachineChanges
  <2>. QED  BY <1>2, <2>1, <2>2, OtherSteps
<1>3. ASSUME op'.script \in {"post-build", "rotate"}, NEW s \in Senders
      PROVE  trusted'[s] <= op'.serving
  <2>1. CASE trusted' = trusted /\ op'.serving = node
    BY <2>1
  <2>2. CASE op'.script = op.script /\ op'.serving = op.serving
    <3>1. trusted[s] <= op.serving  BY <1>3, <2>2 DEF ServingInv
    <3>2. CASE trusted' = trusted  BY <2>2, <3>1, <3>2
    <3>3. CASE Trust
      <4>1. trusted'[s] = op.serving \/ trusted'[s] = trusted[s]  BY <3>3 DEF Trust
      <4>. QED  BY <2>2, <3>1, <4>1
    <3>. QED  BY <3>2, <3>3, TrustSteps
  <2>. QED  BY <1>3, <2>1, <2>2, TrustSteps
(* What was served when a check was read stays below it: only the machine  *)
(* of the check in hand can be added.                                      *)
<1>4. ASSUME NEW K \in States, CheckOK(K),
             op.at \in Registering /\ K.check.cosigned => K.check = op.known.check,
             NEW m \in Machines, machines'[m] \in Served, K.check.cosigned
      PROVE  "a" \in K.steps /\ m <= K.check.tee
  <2>1. CASE machines[m] \in Served  BY <1>4, <2>1 DEF CheckOK
  <2>2. CASE ToProduction /\ m = op.known.check.tee
    <3>1. op.at \in Registering  BY <2>2 DEF ToProduction, At, Registering
    <3>2. K.check.tee = m /\ m \in Nat  BY <1>4, <2>2, <3>1 DEF Machines
    <3>. QED  BY <1>4, <3>2 DEF CheckOK
  <2>. QED  BY <1>4, <2>1, <2>2, MachineChanges
<1>5. ASSUME NEW K \in States, CheckOK(K),
             op.at \in Registering /\ K.check.cosigned => K.check = op.known.check,
             K.check.cosigned
      PROVE  "a" \in K.steps /\ \A m \in Machines : machines'[m] \in Served => m <= K.check.tee
  <2>1. "a" \in K.steps  BY <1>5 DEF CheckOK
  <2>. QED  BY <1>4, <1>5, <2>1
<1>6. ASSUME NEW K \in {saved, op.known, NoState}, K.check.cosigned
      PROVE  "a" \in K.steps /\ \A m \in Machines : machines'[m] \in Served => m <= K.check.tee
  <2>1. K # NoState  BY <1>6 DEF NoState, NoCheck
  <2>. QED  BY <1>5, <1>6, <2>1 DEF ServingInv
(* What is known after the step.                                           *)
<1>7. ASSUME op'.known.check.cosigned
      PROVE  /\ "a" \in op'.known.steps
             /\ \A m \in Machines : machines'[m] \in Served => m <= op'.known.check.tee
  <2>1. CASE ReadTeeInfo
    <3>1. op'.known = saved' /\ saved' \in {saved, NoState}
      <4>1. Go("r") \in Ops  BY GoTyped DEF Labels, Registering
      <4>. QED  BY <2>1, <4>1 DEF ReadTeeInfo, StateFiles, Ops
    <3>. QED  BY <1>6, <1>7, <3>1
  <2>2. CASE RegisterNode
    <3>1. CASE op'.known.check = op.known.check
      BY <1>6, <1>7, <2>2, <3>1, RegisterSteps
    <3>2. CASE RequestFTDCAvailabilityCheck /\ op'.known.check.tee = op.tee /\ "a" \in op'.known.steps
      <4>1. machines' = machines /\ op.at \in Registering
        BY <3>2 DEF RequestFTDCAvailabilityCheck, At, Registering
      <4>2. ASSUME NEW m \in Machines, machines[m] \in Served  PROVE m <= op.tee
        <5>1. machines[m] # "none"  BY <4>2 DEF Served
        <5>2. ~(m > op.tee)  BY <4>1, <5>1 DEF ServingInv
        <5>. QED  BY <4>1, <5>2 DEF Machines
      <4>. QED  BY <3>2, <4>1, <4>2
    <3>. QED  BY <2>2, <3>1, <3>2, RegisterSteps
  <2>3. CASE ~ReadTeeInfo /\ ~RegisterNode
    BY <1>6, <1>7, <2>3, KnownSteps
  <2>. QED  BY <2>1, <2>2, <2>3
<1>8. saved' \in {saved, op'.known, NoState}
  <2>1. CASE ReadTeeInfo  BY <2>1 DEF ReadTeeInfo, StateFiles
  <2>. QED  BY <2>1, RegisterSteps, KnownSteps
<1>9. ASSUME saved'.check.cosigned
      PROVE  /\ "a" \in saved'.steps
             /\ \A m \in Machines : machines'[m] \in Served => m <= saved'.check.tee
  <2>1. CASE saved' = op'.known  BY <1>7, <1>9, <2>1
  <2>2. CASE saved' \in {saved, NoState}  BY <1>6, <1>9, <2>2
  <2>. QED  BY <1>8, <2>1, <2>2
<1>10. ASSUME op'.at \in Registering, saved'.check.cosigned  PROVE saved'.check = op'.known.check
  <2>1. CASE ReadTeeInfo
    <3>1. Go("r") \in Ops  BY GoTyped DEF Labels, Registering
    <3>. QED  BY <2>1, <3>1 DEF ReadTeeInfo, Ops
  <2>2. CASE RegisterNode
    <3>1. saved' # NoState  BY <1>10 DEF NoState, NoCheck
    <3>2. CASE saved' = saved
      <4>1. saved.check = op.known.check /\ "a" \in op.known.steps
        BY <1>10, <2>2, <3>2, RegisterSteps DEF ServingInv, CheckOK
      <4>. QED  BY <2>2, <3>2, <4>1, RegisterSteps
    <3>. QED  BY <1>8, <3>1, <3>2
  <2>3. CASE op' = op /\ ~ReadTeeInfo /\ ~RegisterNode
    BY <1>10, <2>3, KnownSteps DEF ServingInv
  <2>. QED  BY <1>10, <2>1, <2>2, <2>3, OtherSteps
<1>. QED  BY <1>1, <1>2, <1>3, <1>7, <1>9, <1>10 DEF ServingInv, CheckOK

LEMMA ServingInit == DeploymentInit => ServingInv
<1> SUFFICES ASSUME DeploymentInit PROVE ServingInv  OBVIOUS
<1>1. op = Idle /\ saved = NoState /\ \A m \in Machines : machines[m] = "none"
  BY DEF DeploymentInit
<1>2. CheckOK(NoState)  BY DEF CheckOK, NoState, NoCheck
<1>. QED  BY <1>1, <1>2, IdleTyped DEF ServingInv, Registering

(* Nothing takes a working desk down but retire-machine.mjs run by hand on *)
(* the machine that serves: no other script, run to its end or not,        *)
(* resumed from any state file, with what it read of the machine gone      *)
(* stale, or with URLs that do not answer.                                 *)
THEOREM StaysHealthy == DeploymentSpec => HealthyStays
<1> DEFINE Kept == (Healthy /\ home' = home /\ env' = env /\ ~RetireByHand(node)) => Healthy'
<1>1. TypeInv /\ ServingInv /\ [DeploymentNext]_vars => [Kept]_vars
  <2> SUFFICES ASSUME TypeInv, ServingInv, [DeploymentNext]_vars, Healthy, home' = home, env' = env,
                      ~RetireByHand(node)
               PROVE  Healthy'
    OBVIOUS
  <2> USE RegisteringFacts, TypeFacts
  <2>1. /\ Complete /\ node # 0 /\ trusted[env.sender] = node
        /\ Active(env.extension) = {node} /\ machines[node] = "production"
    BY DEF Healthy, Active
  <2>2. Complete' /\ node' = node  BY <2>1 DEF Complete, node
  <2>3. node \in Machines /\ env.sender \in Senders
    <3>1. node \in Machines  BY <2>1 DEF Machines
    <3>2. env.sender \in 0..senders  BY DEF TypeInv, DeploymentTypeOK
    <3>3. env.sender # 0  BY <2>1 DEF Complete
    <3>. QED  BY <3>1, <3>2, <3>3 DEF Senders
  <2>4. trusted'[env.sender] = node
    <3>1. CASE Trust
      <4>1. op.script \in {"post-build", "rotate"}  BY <3>1 DEF Trust, At, OpOK, Posting
      <4>2. trusted[env.sender] <= op.serving  BY <2>3, <4>1 DEF ServingInv
      <4>3. op.serving = node  BY <2>1, <4>2
      <4>. QED  BY <2>3, <3>1, <4>3 DEF Trust
    <3>. QED  BY <2>1, <3>1, TrustSteps
  <2>5. ~(ToProduction /\ op.known.check.cosigned)
    <3> SUFFICES ASSUME ToProduction, op.known.check.cosigned  PROVE FALSE  OBVIOUS
    <3>1. Check = op.known.check  BY DEF ToProduction, Check, NoCheck
    <3>2. node <= op.known.check.tee
      BY <2>1, <2>3 DEF ServingInv, CheckOK, Served
    <3>3. machines[op.known.check.tee] = "registered"  BY <3>1 DEF ToProduction
    <3>4. op.known.check.tee \in 0..MaxMachines  BY DEF States
    <3>5. op.known.check.tee \in Machines /\ op.known.check.tee # node
      BY <2>1, <2>3, <3>2, <3>3, <3>4 DEF Machines
    <3>6. op.known.check.tee > node  BY <3>2, <3>4, <3>5
    <3>. QED  BY <3>3, <3>5, <3>6 DEF ServingInv
  <2>6. ~ToProduction
    BY <2>5 DEF ToProduction, Check, NoCheck
  <2>7. machines'[node] = "production"
    <3>1. CASE Retire
      <4>1. op.script \in {"post-build", "rotate"}  BY <3>1 DEF Retire, At, OpOK, Posting
      <4>2. trusted[env.sender] <= op.serving  BY <2>3, <4>1 DEF ServingInv
      <4>3. op.serving = node  BY <2>1, <4>2
      <4>. QED  BY <2>1, <2>3, <3>1, <4>3 DEF Retire, RetireMachine, Strays
    <3>2. CASE PreRegistration
      BY <2>1, <2>3, <3>2 DEF PreRegistration
    <3>3. ASSUME NEW m \in Machines, RetireByHand(m)  PROVE machines'[node] = "production"
      <4>1. m # node  BY <3>3
      <4>. QED  BY <2>1, <2>3, <3>3, <4>1 DEF RetireByHand, RetireMachine
    <3>. QED  BY <2>1, <2>6, <3>1, <3>2, <3>3, MachineSteps
  <2>8. Active(env.extension)' = {node}
    <3>1. ASSUME NEW m \in 1..node, machines'[m] = "production", home[m] = env.extension
          PROVE  m = node
      <4>1. m \in Machines  BY DEF Machines
      <4>2. machines[m] = "production"  BY <2>6, <3>1, <4>1, MachineChanges
      <4>. QED  BY <2>1, <3>1, <4>2 DEF Active
    <3>2. home[node] = env.extension /\ node \in 1..node  BY <2>1 DEF Active
    <3>. QED  BY <2>2, <2>7, <3>1, <3>2 DEF Active
  <2>. QED  BY <2>1, <2>2, <2>4, <2>8 DEF Healthy
<1>. QED  BY TypeInit, TypeStep, ServingInit, ServingStep, <1>1, PTL DEF DeploymentSpec, HealthyStays
-----------------------------------------------------------------------------
(***************************************************************************)
(* verify-deploy.  What a result in a report says of its condition.        *)
(***************************************************************************)
(* The process in the properties: everything but the chain answers well,   *)
(* and R7 may ask for some senders in vain.                                *)
LEMMA HostAnswers ==
    ASSUME NEW host \in Hosts
    PROVE  /\ host.config /\ host.rpc /\ host.diamond = "contract" /\ host.funded /\ host.key
           /\ host.unread \subseteq DOMAIN extensions
BY DEF Hosts, Host

(* A file: absent, there but not to be opened, or open, its values absent, *)
(* malformed or well formed.                                               *)
LEMMA FileFacts ==
    ASSUME NEW file \in Files
    PROVE  /\ file.extension \in Int /\ file.sender \in Int
           /\ file.extension # 0 => file.opens
<1>1. CASE file \in {NoFile, Unopened}
  <2>1. file.extension = 0 /\ file.sender = 0  BY <1>1 DEF NoFile, Unopened
  <2>. QED  BY <2>1
<1>2. CASE file \in [exists : {TRUE}, opens : {TRUE},
                      extension : -1..MaxExtensions, sender : -1..MaxSenders]
  <2>1. file.opens = TRUE /\ file.extension \in -1..MaxExtensions /\ file.sender \in -1..MaxSenders
    BY <1>2
  <2>2. file.extension \in Int /\ file.sender \in Int  BY <2>1, BoundsAssumption
  <2>. QED  BY <2>1, <2>2
<1>. QED  BY <1>1, <1>2 DEF Files

-----------------------------------------------------------------------------
(* What the deploy and services steps refuse of extension.env.             *)
LEMMA DeployRefuses ==
    ASSUME NEW file \in Files, NEW host \in Hosts, file.opens, ~WellFormed(file.sender)
    PROVE  Result("D7", "sender", "FAIL") \in DeployChecks(file, host)
BY HostAnswers DEF Pick, DeployChecks, CheckExtensionEnvFormat

LEMMA ServicesRefuses ==
    ASSUME NEW file \in Files, NEW host \in Hosts, ~WellFormed(file.extension)
    PROVE  Result("S2", "", "FAIL") \in ServicesChecks(file, host)
BY HostAnswers DEF Pick, ServicesChecks, ExtensionSetCheck

-----------------------------------------------------------------------------
(* R7 looks at the extensions with the file's contract, and at no id 0.    *)
LEMMA MatchingIsNaming ==
    ASSUME TypeInv, NEW file, file.sender \in Nat \ {0}, NEW host
    PROVE  /\ MatchingIDs(file, host) = Naming(file.sender) \ host.unread
           /\ IsFiniteSet(Naming(file.sender))
<1>1. MatchingIDs(file, host) = {id \in (0..Len(extensions)) \ host.unread : SenderOf(id) = file.sender}
  BY TypeFacts DEF MatchingIDs, NextPublicExtensionId
<1>2. ASSUME NEW id \in 0..Len(extensions), SenderOf(id) = file.sender
      PROVE  id \in Naming(file.sender)
  BY <1>2, TypeFacts DEF SenderOf, Naming
<1>3. ASSUME NEW id \in Naming(file.sender)
      PROVE  id \in 0..Len(extensions) /\ SenderOf(id) = file.sender
  BY <1>3, TypeFacts DEF SenderOf, Naming
<1>4. MatchingIDs(file, host) = Naming(file.sender) \ host.unread  BY <1>1, <1>2, <1>3
<1>5. IsFiniteSet(0..Len(extensions)) /\ Naming(file.sender) \subseteq 0..Len(extensions)
  BY <1>3, TypeFacts, FS_Interval
<1>. QED  BY <1>4, <1>5, FS_Subset

(* What a clean report means: the file's contract is the one its extension *)
(* names, machines and keys of it can be registered, and setExtensionId on *)
(* the contract finds it, unless R7 passed over an extension that names    *)
(* the contract.                                                           *)
LEMMA CleanMeans ==
    ASSUME TypeInv, NEW file \in Files, NEW host \in Hosts, ExitsZero("all", file, host, {}),
           Statuses(RegistrationChecks(file, host), "R7") = {"PASS"}
    PROVE  /\ file.opens /\ SenderOf(file.extension) = file.sender
           /\ {"machineOwner", "keyType"} \subseteq extensions[file.extension].done
           /\ \/ FindExtension(file.sender) = file.extension
              \/ Naming(file.sender) \cap host.unread # {}
<1> USE HostAnswers
<1>1. ASSUME NEW step \in Steps, NEW r \in StepReport(step, file, host)  PROVE r.status # "FAIL"
  BY <1>1 DEF ExitsZero, HasFailures, Filtered
<1>2. /\ StepReport("deploy", file, host) = DeployChecks(file, host)
      /\ StepReport("register", file, host) = RegistrationChecks(file, host)
      /\ StepReport("services", file, host) = ServicesChecks(file, host)
  BY DEF StepReport
<1>3. ASSUME NEW r \in DeployChecks(file, host) \cup RegistrationChecks(file, host)
                         \cup ServicesChecks(file, host)
      PROVE  r.status # "FAIL"
  BY <1>1, <1>2 DEF Steps
<1>4. file.extension \in Int /\ file.sender \in Int  BY FileFacts
<1>5. WellFormed(file.extension)
  <2>1. Result("S2", "", "FAIL").status = "FAIL"  BY DEF Result
  <2>. QED  BY <1>3, <2>1, ServicesRefuses
<1>6. file.extension \in Nat \ {0} /\ file.opens  BY <1>4, <1>5, FileFacts DEF WellFormed
<1>7. WellFormed(file.sender)
  <2>1. Result("D7", "sender", "FAIL").status = "FAIL"  BY DEF Result
  <2>. QED  BY <1>3, <1>6, <2>1, DeployRefuses
<1>8. file.sender \in Nat \ {0}  BY <1>4, <1>7 DEF WellFormed
<1>9. RegistrationChecks(file, host) =
          CountersCheck(host) \cup SenderCheck(file, host) \cup OwnerCheck(file, host)
            \cup KeyTypeCheck(file, host) \cup UniqueSenderCheck(file, host)
  BY <1>5, <1>6 DEF RegistrationChecks, Absent
<1>10. SenderOf(file.extension) = file.sender
  <2>1. \A r \in SenderCheck(file, host) : r.status # "FAIL"  BY <1>3, <1>9
  <2>. QED  BY <1>7, <2>1 DEF SenderCheck, Pick, Result
<1>11. Has(file.extension, "machineOwner") /\ Has(file.extension, "keyType")
  <2>1. \A r \in OwnerCheck(file, host) \cup KeyTypeCheck(file, host) : r.status # "FAIL"
    BY <1>3, <1>9
  <2>. QED  BY <2>1 DEF OwnerCheck, KeyTypeCheck, Pick, Result
<1>12. file.extension \in Naming(file.sender)
  BY <1>8, <1>10 DEF SenderOf, Naming
<1>13. Cardinality(MatchingIDs(file, host)) <= 1
  <2> DEFINE status == IF Cardinality(MatchingIDs(file, host)) <= 1 THEN "PASS" ELSE "WARN"
             r == Result("R7", "", status)
  <2>1. r \in UniqueSenderCheck(file, host)
    BY <1>7 DEF UniqueSenderCheck, Pick
  <2>2. r \in RegistrationChecks(file, host)  BY <1>9, <2>1
  <2>3. r.id = "R7" /\ r.status = status  BY DEF Result
  <2> HIDE DEF r
  <2>4. r.status \in Statuses(RegistrationChecks(file, host), "R7")  BY <2>2, <2>3 DEF Statuses
  <2>5. status = "PASS"  BY <2>3, <2>4
  <2>. QED  BY <2>5
<1>14. ASSUME Naming(file.sender) \cap host.unread = {}
       PROVE  FindExtension(file.sender) = file.extension
  <2>1. MatchingIDs(file, host) = Naming(file.sender) /\ IsFiniteSet(Naming(file.sender))
    BY <1>8, <1>14, MatchingIsNaming
  <2>2. {file.extension} \subseteq Naming(file.sender) /\ Cardinality({file.extension}) = 1
    BY <1>12, FS_Singleton
  <2>3. Cardinality(Naming(file.sender)) = 1
    BY <1>13, <2>1, <2>2, FS_Subset, FS_CardinalityType
  <2>4. Naming(file.sender) = {file.extension}  BY <2>1, <2>2, <2>3, FS_Subset
  <2>. QED  BY <2>4, FindExtensionFirst
<1>. QED  BY <1>6, <1>10, <1>11, <1>14 DEF Has

(* When verify-deploy exits 0 and warns of no shared sender, what its file *)
(* names can be used, unless R7 passed over an extension that names the    *)
(* same contract: in whatever state dead scripts and hand-run              *)
(* registrations left the chain.                                           *)
THEOREM CleanMeansReady == DeploymentSpec => []CleanReport
<1>1. TypeInv => CleanReport  BY CleanMeans DEF CleanReport
<1>. QED  BY TypeInit, TypeStep, <1>1, PTL DEF DeploymentSpec

-----------------------------------------------------------------------------
(* A complete extension.env is a file on disk.                             *)
EnvExists == Complete => env.exists

LEMMA EnvExistsStep == EnvExists /\ [DeploymentNext]_vars => EnvExists'
<1> SUFFICES ASSUME EnvExists, [DeploymentNext]_vars PROVE EnvExists'  OBVIOUS
<1>1. CASE env' = env  BY <1>1 DEF EnvExists, Complete
<1>2. CASE WriteEnv  BY <1>1, <1>2 DEF WriteEnv, EnvExists
<1>3. CASE ~WriteEnv /\ env' # env
  BY <1>3 DEF vars, DeploymentNext, ScriptStep, StartPreBuild, StartRegisterExtension, StartPostBuild,
              PostBuild, StartRegisterTee, StartRotation, DeployInstructionSender, registerExtension,
              SetupExtension, AllowTeeVersion, SetTeeGovernance, ReadTeeInfo, RegisterNode, SkipStep,
              PreRegistration, RequestTeeAttestation, RequestFTDCAvailabilityCheck, ToProduction,
              RemoveState, Report, SetExtensionId, Trust, Retire, RetireByHand, Die, StartNode,
              ExpireChallenge
<1>. QED  BY <1>1, <1>2, <1>3

LEMMA ResultPasses == \A id, about : Result(id, about, "PASS").status = "PASS"
BY DEF Result

(* What pre-build.sh leaves when it completes passes verification.         *)
LEMMA PreBuildPasses ==
    ASSUME TypeInv, EnvInv, EnvExists, Complete,
           NEW host \in Hosts,
           NEW r \in DeployChecks(EnvFile, host) \cup RegistrationChecks(EnvFile, host)
    PROVE  r.status = "PASS" \/ (r.id = "R7" /\ Cardinality(Naming(env.sender)) > 1)
<1>1. env.exists /\ env.extension \in Nat \ {0} /\ env.sender \in Nat \ {0}
  BY TypeFacts DEF TypeInv, DeploymentTypeOK, EnvExists, Complete
<1>0. /\ EnvFile.opens
      /\ EnvFile.extension = env.extension /\ EnvFile.sender = env.sender
  BY <1>1 DEF EnvFile
<1>2. WellFormed(EnvFile.extension) /\ WellFormed(EnvFile.sender)  BY <1>0, <1>1 DEF WellFormed
<1>3. CASE r \in DeployChecks(EnvFile, host)
  <2>1. AddressNotZero(host) /\ AddressHasCode(host) /\ KeyHasFunds(host)
    BY HostAnswers DEF AddressNotZero, AddressHasCode, KeyHasFunds
  <2>2. /\ CheckDeployerKeySource(host) = {Result("D5", "key", "PASS")}
        /\ checkChainID(host) = {Result("D6", "", "PASS")}
        /\ CheckExtensionEnvFormat(EnvFile) = {Result("D7", "sender", "PASS"), Result("D7", "extension", "PASS")}
    BY <1>0, <1>2, HostAnswers DEF CheckDeployerKeySource, checkChainID, CheckExtensionEnvFormat, Pick
  <2>3. DeployChecks(EnvFile, host) =
            {Result("D3", "", "PASS"), Result("D1", "", "PASS"), Result("D5", "key", "PASS"),
             Result("D5", "funds", "PASS"), Result("D6", "", "PASS"),
             Result("D7", "sender", "PASS"), Result("D7", "extension", "PASS")}
    BY <2>1, <2>2, HostAnswers DEF DeployChecks, Pick
  <2>. QED  BY <1>3, <2>3, ResultPasses
<1>4. CASE r \in RegistrationChecks(EnvFile, host)
  <2>1. RegistrationChecks(EnvFile, host) =
            CountersCheck(host) \cup SenderCheck(EnvFile, host) \cup OwnerCheck(EnvFile, host)
              \cup KeyTypeCheck(EnvFile, host) \cup UniqueSenderCheck(EnvFile, host)
    BY <1>0, <1>1, <1>2, HostAnswers DEF RegistrationChecks, Absent
  <2>2. /\ env.extension \in DOMAIN extensions /\ extensions[env.extension].sender = env.sender
        /\ OwnerSetup \subseteq extensions[env.extension].done
    BY DEF EnvInv, EnvNamed, First, Naming
  <2>3. SenderOf(env.extension) = env.sender /\ Has(env.extension, "machineOwner")
        /\ Has(env.extension, "keyType")
    BY <2>2 DEF SenderOf, Has, OwnerSetup
  <2>4. CASE r \in SenderCheck(EnvFile, host) \cup OwnerCheck(EnvFile, host) \cup KeyTypeCheck(EnvFile, host)
    <3>1. /\ SenderCheck(EnvFile, host) = {Result("R2", "", "PASS")}
          /\ OwnerCheck(EnvFile, host) = {Result("R3", "", "PASS")}
          /\ KeyTypeCheck(EnvFile, host) = {Result("R4", "", "PASS")}
      BY <1>0, <1>2, <2>3, HostAnswers DEF SenderCheck, OwnerCheck, KeyTypeCheck, Pick
    <3>. QED  BY <2>4, <3>1, ResultPasses
  <2>5. CASE r \in CountersCheck(host)
    <3>1. NextPublicExtensionId # 0  BY TypeFacts DEF NextPublicExtensionId
    <3>2. CountersCheck(host) = {Result("R1", "", "PASS")}
      BY <3>1, HostAnswers DEF CountersCheck, Pick
    <3>. QED  BY <2>5, <3>2, ResultPasses
  <2>6. CASE r \in UniqueSenderCheck(EnvFile, host)
    <3>1. r.id = "R7" /\ r.status = (IF Cardinality(MatchingIDs(EnvFile, host)) <= 1 THEN "PASS" ELSE "WARN")
      <4>1. r = Result("R7", "", IF Cardinality(MatchingIDs(EnvFile, host)) <= 1 THEN "PASS" ELSE "WARN")
        BY <1>2, <2>6, HostAnswers DEF UniqueSenderCheck, Pick
      <4>. QED  BY <4>1 DEF Result
    <3>2. /\ MatchingIDs(EnvFile, host) = Naming(env.sender) \ host.unread
          /\ IsFiniteSet(Naming(env.sender))
      BY <1>0, <1>1, MatchingIsNaming
    <3>3. /\ Cardinality(MatchingIDs(EnvFile, host)) \in Nat /\ Cardinality(Naming(env.sender)) \in Nat
          /\ Cardinality(MatchingIDs(EnvFile, host)) <= Cardinality(Naming(env.sender))
      BY <3>2, FS_Subset, FS_CardinalityType
    <3>. QED  BY <3>1, <3>3
  <2>. QED  BY <1>4, <2>1, <2>4, <2>5, <2>6
<1>. QED  BY <1>3, <1>4

(* The file a completed pre-build.sh wrote passes verification at once and *)
(* ever after, whatever is deployed, registered, restarted or retired      *)
(* later, and whichever senders R7 passes over.                            *)
THEOREM PreBuildPassesEver == DeploymentSpec => []PreBuildVerifies
<1>1. TypeInv /\ EnvInv /\ EnvExists => PreBuildVerifies  BY PreBuildPasses DEF PreBuildVerifies
<1>2. DeploymentInit => EnvExists  BY DEF DeploymentInit, EnvExists, Complete, NoEnv
<1>. QED  BY TypeInit, TypeStep, EnvInit, EnvStep, EnvExistsStep, <1>1, <1>2, PTL DEF DeploymentSpec
=============================================================================
