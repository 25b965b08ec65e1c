---------------------------- MODULE RateLimiter -----------------------------
(***************************************************************************)
(* The fixed-window limiter every request of the registry passes first     *)
(* (internal/registry/httpapi/ratelimit.go).  ServeHTTP reads the clock    *)
(* before it asks for the limiter's lock, so requests may reach the        *)
(* limiter with times that are out of order.  A limit of 0 turns the       *)
(* limiter off and is left out.                                            *)
(***************************************************************************)
EXTENDS Integers, FiniteSets, Sequences

CONSTANTS Hosts,       \* source addresses
          Overflow,    \* the shared bucket
          Limit, Window,
          MaxEntries,  \* 4096 in the code
          Lag,         \* how far behind the clock a request may arrive
          LimitTime,   \* bound on the clock
          MaxServed    \* bound on the number of requests

ASSUME LimiterConstants == /\ Overflow \notin Hosts
                           /\ Limit \in Nat \ {0} /\ Window \in Nat \ {0}
                           /\ MaxEntries \in Nat \ {0} /\ Lag \in Nat
                           /\ LimitTime \in Nat /\ MaxServed \in Nat

VARIABLES entries,   \* bucket -> the start of its window and its count
          hour,      \* the clock
          served     \* every decision so far: bucket, time and answer

limiterVars == <<entries, hour, served>>

LimiterInit == entries = <<>> /\ hour = 0 /\ served = <<>>

\* Faulty variant: a window that is over is not started afresh.
CurrentKept(key, now) == IF key \notin DOMAIN entries
                         THEN [started |-> now, count |-> 0] ELSE entries[key]

\* The window the request counts in: a fresh one when the bucket has none, when
\* the last one is over, or when the time lies before it.
Current(key, now) ==
    IF \/ key \notin DOMAIN entries
       \/ now - entries[key].started >= Window
       \/ now < entries[key].started
    THEN [started |-> now, count |-> 0] ELSE entries[key]

\* A source that is new while the table is full shares the overflow bucket.
Bucket(host) == IF host \notin DOMAIN entries /\ Cardinality(DOMAIN entries) >= MaxEntries
                THEN Overflow ELSE host

\* The sweep of windows that are over, done when the table is past its limit.
Swept(table, now) ==
    IF Cardinality(DOMAIN table) <= MaxEntries THEN table
    ELSE [k \in {k \in DOMAIN table : now - table[k].started < Window} |-> table[k]]

\* allow, for a request of host that read the clock at now; ServeHTTP replies 429
\* when the answer is FALSE.
allow(host, now) ==
    LET key     == Bucket(host)
        counted == [Current(key, now) EXCEPT !.count = @ + 1]
    IN  /\ Len(served) < MaxServed
        /\ entries' = Swept([k \in DOMAIN entries \union {key} |->
                                IF k = key THEN counted ELSE entries[k]], now)
        /\ served' = Append(served, [key |-> key, now |-> now,
                                     ok |-> counted.count <= Limit])
        /\ UNCHANGED hour

HourPasses == hour < LimitTime /\ hour' = hour + 1 /\ UNCHANGED <<entries, served>>

LimiterNext == \/ \E host \in Hosts, late \in 0..Lag : allow(host, hour - late)
               \/ HourPasses

LimiterSpec == LimiterInit /\ [][LimiterNext]_limiterVars

-----------------------------------------------------------------------------
\* Whatever the order in which requests reach the limiter and whatever the
\* number of sources, a request is refused only if the same bucket let Limit
\* others through within one window of its time; and the table of sources stays
\* within its bound, plus the shared bucket.
RefusalIsEarned ==
    /\ \A i \in 1..Len(served) : served[i].ok \/
          Cardinality({j \in 1..(i - 1) : /\ served[j].key = served[i].key
                                          /\ served[j].ok
                                          /\ served[j].now - served[i].now < Window
                                          /\ served[i].now - served[j].now < Window}) >= Limit
    /\ Cardinality(DOMAIN entries) <= MaxEntries + 1
=============================================================================
