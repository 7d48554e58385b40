---------------------------- MODULE EventOutbox ----------------------------
(* What deferring a broadcast promises (TransactionDeferredTransport), with  *)
(* no interceptor, driver, callback list or retry in sight: an operation     *)
(* asks for broadcasts in units of work, one for each execution of each root *)
(* field.  Broadcasts leave in the order they were asked for, never before   *)
(* something of their field is durable, and a field is over only when all    *)
(* that a durable unit of it asked for has left.                             *)
EXTENDS Naturals, Sequences

CONSTANTS Fields, Runs

VARIABLES
  asked,     \* the unit that asked for each broadcast, in their order
  durable,   \* units whose writes will survive this process
  out,       \* the broadcasts that have left, by their place in asked
  over       \* fields that nothing more is done for

vars == <<asked, durable, out, over>>

Units == [field : Fields, run : Runs]

Init == asked = <<>> /\ durable = {} /\ out = <<>> /\ over = {}

Ask(u) ==
  /\ u.field \notin over /\ u \notin durable
  /\ asked' = Append(asked, u)
  /\ UNCHANGED <<durable, out, over>>

Persist(u) ==
  /\ u.field \notin over
  /\ durable' = durable \cup {u}
  /\ UNCHANGED <<asked, out, over>>

(* The next one, of a field that something is durable of.                    *)
Send ==
  /\ Len(out) < Len(asked)
  /\ \E u \in durable : u.field = asked[Len(out) + 1].field
  /\ out' = Append(out, Len(out) + 1)
  /\ UNCHANGED <<asked, durable, over>>

Finish(f) ==
  /\ f \notin over
  /\ \A n \in DOMAIN asked :
       asked[n].field = f /\ asked[n] \in durable => n <= Len(out)
  /\ over' = over \cup {f}
  /\ UNCHANGED <<asked, durable, out>>

Next ==
  \/ \E u \in Units : Ask(u) \/ Persist(u)
  \/ Send
  \/ \E f \in Fields : Finish(f)

Spec == Init /\ [][Next]_vars
=============================================================================
