----------------------------- MODULE ChainData ------------------------------
(***************************************************************************)
(* The data of a Session Chain and the operations on it that               *)
(* SessionChain (one manager, in memory) and ChainStorage (managers of     *)
(* several processes over one directory) have in common.                   *)
(***************************************************************************)
EXTENDS Integers, Sequences

CONSTANTS
  EstimateTokens(_),  \* token estimate of a message's content
  TokenLimit,         \* int(MaxTokens * SealThreshold)
  EventLimit,         \* MaxEventsPerSession
  MaxMessages,        \* bound: messages ever appended
  MaxSessions         \* bound: sessions of a chain

ASSUME EstimateType == \A m \in 1..MaxMessages : EstimateTokens(m) \in Nat
ASSUME LimitType == TokenLimit \in Nat /\ EventLimit \in Nat
ASSUME BoundType == MaxMessages \in Nat /\ MaxSessions \in Nat \ {0}

\* An event is its EventNo and the message it carries.
Event  == [no : Nat, msg : Nat]

\* A SessionRecord: summary tells whether it has a Summary.
Record == [status : {"active", "compressing", "sealed"}, start : Nat, end : Nat,
           count : Nat, tokens : Nat, summary : BOOLEAN]

\* A SessionChainMeta.
Meta   == [active : Nat, count : Nat, total : Nat]

\* The map m.metas has no entry for the thread.
NoChain    == [active |-> 0, count |-> 0, total |-> 0]
FirstMeta  == [active |-> 1, count |-> 1, total |-> 0]

NewSession(total) ==
  [status |-> "active", start |-> total + 1, end |-> total,
   count |-> 0, tokens |-> 0, summary |-> FALSE]

\* The record after one more event, numbered n and of w tokens.
WithEvent(r, n, w) ==
  [r EXCEPT !.count = r.count + 1, !.end = n, !.tokens = r.tokens + w]

\* f[s] = v, for a map f that may not have the key s.
Put(f, s, v) == [t \in DOMAIN f \cup {s} |-> IF t = s THEN v ELSE f[t]]

\* CheckAndSeal's thresholds.
Full(r) == r.tokens >= TokenLimit \/ r.count >= EventLimit
=============================================================================
