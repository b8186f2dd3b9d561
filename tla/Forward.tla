------------------------------ MODULE Forward ------------------------------
(***************************************************************************)
(* api/_forward.js under api/tee/[...path].js: one instance of the proxy   *)
(* between deployed desks and the enclave, with its throttle and its cache *)
(* of answers.  A handler runs alone until it awaits the enclave, and any  *)
(* number of others run before it goes on.  Time is a clock of its own     *)
(* unit.  An answer is told apart only by the moment the enclave gave it;  *)
(* what it says, status included, is relayed and kept whatever it is.      *)
(* Left out: requests for anything else, which pass the throttle and are   *)
(* refused, and the other instances of the platform.                       *)
(***************************************************************************)
EXTENDS Integers, FiniteSets, Functions

CONSTANTS
    Addresses,    \* x-forwarded-for of the callers
    Reads,        \* what is asked for: "info", "LIST_RFQS", "GET_MY_BIDS" or "GET_RFQ_STATE"
    PerWindow, Window, MaxBuckets,   \* of throttled: 30, 10 s and 5000
    InfoTtl, BookTtl,                \* of the two kept answers: 15 s and 4 s
    MaxAnswers,   \* answers kept before all are dropped, 200
    Timeout,      \* of the call to the enclave, 8 s
    Fetches,      \* calls that can be waiting at one time
    MaxTime       \* bound on the clock

ASSUME ForwardAssumption ==
    /\ {PerWindow, Window, MaxBuckets, MaxAnswers, MaxTime} \subseteq Nat
    /\ {Timeout, InfoTtl, BookTtl} \subseteq Nat \ {0}

VARIABLES
    clock,
    buckets,      \* the throttle's counters, by address
    kept,         \* the cache: answers, by key
    fetches,      \* calls to the enclave that have not come back
    served,       \* the answer relayed in the last step
    accepted      \* history: the requests let through in the last window, by address and time

forwardVars == <<clock, buckets, kept, fetches, served, accepted>>

ttlMs(read) == CASE read = "info" -> InfoTtl
                 [] read = "LIST_RFQS" -> BookTtl
                 [] OTHER -> 0                      \* asked without a cacheKey

NoFetch == [read |-> "none", since |-> 0, answered |-> -1]
Nothing == [read |-> "none", age |-> 0]
Relayed(read, moment) == [read |-> read, age |-> clock - moment]

With(f, key, value) == [k \in DOMAIN f \cup {key} |-> IF k = key THEN value ELSE f[k]]

ForwardInit ==
    /\ clock = 0 /\ buckets = <<>> /\ kept = <<>> /\ served = Nothing
    /\ fetches = [f \in Fetches |-> NoFetch]
    /\ accepted = [ip \in Addresses |-> [t \in 0..MaxTime |-> 0]]

-----------------------------------------------------------------------------
Elapsed(b) == clock - b.start > Window

(* A caller's counter after this request.  Past PerWindow + 1 it makes no  *)
(* difference any more, and stays there.                                   *)
Counted(ip) == IF ip \notin DOMAIN buckets \/ Elapsed(buckets[ip])
                 THEN [start |-> clock, n |-> 1]
                 ELSE [buckets[ip] EXCEPT !.n = IF @ > PerWindow THEN @ ELSE @ + 1]

throttled(ip) == Counted(ip).n > PerWindow

(* faulty: all counters are dropped when there are too many *)
SweptAll(table) == IF Cardinality(DOMAIN table) > MaxBuckets THEN <<>> ELSE table

(* A request that is let through sweeps the table when it is too long.     *)
Swept(table) ==
    IF Cardinality(DOMAIN table) > MaxBuckets
      THEN [ip \in {i \in DOMAIN table : ~Elapsed(table[i])} |-> table[ip]]
      ELSE table

Refuse(ip) ==
    /\ throttled(ip)
    /\ buckets' = With(buckets, ip, Counted(ip))
    /\ served' = Nothing
    /\ UNCHANGED <<clock, kept, fetches, accepted>>

Accept(ip) ==
    /\ ~throttled(ip)
    /\ buckets' = Swept(With(buckets, ip, Counted(ip)))
    /\ accepted' = [accepted EXCEPT ![ip][clock] = @ + 1]

Hit(read) == read \in DOMAIN kept /\ clock - kept[read].at < ttlMs(read)

(* faulty: reading an answer keeps it alive *)
AnswerKeptSliding(ip, read) ==
    /\ Hit(read)
    /\ Accept(ip)
    /\ served' = Relayed(read, kept[read].answered)
    /\ kept' = [kept EXCEPT ![read].at = clock]
    /\ UNCHANGED <<clock, fetches>>

AnswerKept(ip, read) ==
    /\ Hit(read)
    /\ Accept(ip)
    /\ served' = Relayed(read, kept[read].answered)
    /\ UNCHANGED <<clock, kept, fetches>>

(* Nothing joins two calls for the same answer.                            *)
Fetch(ip, read, f) ==
    /\ ~Hit(read)
    /\ Accept(ip)
    /\ fetches[f] = NoFetch
    /\ fetches' = [fetches EXCEPT ![f] = [read |-> read, since |-> clock, answered |-> -1]]
    /\ served' = Nothing
    /\ UNCHANGED <<clock, kept>>

(* The enclave, or the tunnel before it, gives its answer.                 *)
Upstream(f) ==
    /\ fetches[f] # NoFetch /\ fetches[f].answered = -1
    /\ fetches' = [fetches EXCEPT ![f].answered = clock]
    /\ served' = Nothing
    /\ UNCHANGED <<clock, buckets, kept, accepted>>

(* The answer is in: kept under its key, over any that came before it.     *)
Remembered(read, answered) ==
    LET longer == With(kept, read, [at |-> clock, answered |-> answered])
    IN  IF Cardinality(DOMAIN longer) > MaxAnswers THEN <<>> ELSE longer

Return(f) ==
    LET call == fetches[f]
    IN  /\ call.answered # -1
        /\ fetches' = [fetches EXCEPT ![f] = NoFetch]
        /\ served' = Relayed(call.read, call.answered)
        /\ kept' = IF ttlMs(call.read) = 0 THEN kept ELSE Remembered(call.read, call.answered)
        /\ UNCHANGED <<clock, buckets, accepted>>

(* No connection, or the timeout: 504, and nothing is kept.                *)
Unreachable(f) ==
    /\ fetches[f] # NoFetch
    /\ fetches' = [fetches EXCEPT ![f] = NoFetch]
    /\ served' = Nothing
    /\ UNCHANGED <<clock, buckets, kept, accepted>>

(* The timeout ends a call on time.                                        *)
Tick ==
    /\ clock < MaxTime
    /\ \A f \in Fetches : fetches[f] # NoFetch => clock - fetches[f].since < Timeout
    /\ clock' = clock + 1
    /\ served' = Nothing
    /\ accepted' = [ip \in Addresses |->
                       [t \in 0..MaxTime |-> IF clock' - t <= Window THEN accepted[ip][t] ELSE 0]]
    /\ UNCHANGED <<buckets, kept, fetches>>

ForwardNext ==
    \/ \E ip \in Addresses : Refuse(ip)
    \/ \E ip \in Addresses, read \in Reads :
          AnswerKept(ip, read) \/ \E f \in Fetches : Fetch(ip, read, f)
    \/ \E f \in Fetches : Upstream(f) \/ Return(f) \/ Unreachable(f)
    \/ Tick

ForwardSpec == ForwardInit /\ [][ForwardNext]_forwardVars

-----------------------------------------------------------------------------
(* A failure or a book that has changed since is shown for a bounded time: *)
(* however many readers keep an answer in demand, and however calls for it *)
(* overlap and come back in another order, what is relayed was the         *)
(* enclave's answer less than ttl + timeout ago, or, where no answer is    *)
(* kept, at most the timeout ago.                                          *)
AnswersAreFresh ==
    served # Nothing =>
        \/ served.age <= Timeout
        \/ served.age < ttlMs(served.read) + Timeout

(* One address gets at most twice its allowance through in any window, as  *)
(* long as this instance lives: counters restart at the end of a window,   *)
(* never in the middle, not even when the table of them is swept.          *)
AllowanceHolds ==
    \A ip \in Addresses :
        SumFunctionOnSet(accepted[ip], 0..MaxTime) <= 2 * PerWindow
=============================================================================
