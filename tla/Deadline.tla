------------------------------ MODULE Deadline ------------------------------
(***************************************************************************)
(* Deadlines, crates/monosecret_rpc/src/deadline.rs, along the path of one *)
(* request that raises a callback.  A request carries an absolute deadline *)
(* in wall-clock milliseconds; the endpoint turns it into an instant of    *)
(* its monotonic clock, and Peer::call turns that instant back into the    *)
(* deadline of the callback, which the client compares with its own.       *)
(* Each conversion reads both clocks, one after the other.                 *)
(*                                                                         *)
(* Time is counted in ticks, PerMs of them to a millisecond, so that what  *)
(* rounding to milliseconds does is visible.                               *)
(***************************************************************************)
EXTENDS Naturals

CONSTANTS
  PerMs,      \* ticks per millisecond
  Horizon,    \* MAX_DEADLINE_HORIZON, in milliseconds
  MaxWire,    \* MAX_JSON_INTEGER
  TimerSlack, \* ticks a timer may fire late
  MaxTime     \* bound: ticks either clock may show

ASSUME DeadlineAssumption ==
  /\ PerMs \in Nat \ {0} /\ Horizon \in Nat \ {0}
  /\ MaxWire \in Nat /\ TimerSlack \in Nat /\ MaxTime \in Nat

VARIABLES
  mono,      \* the monotonic clock
  wall,      \* the wall clock
  step,      \* the conversion the request is in
  wire,      \* the request's deadline as the client wrote it, in milliseconds
  read,      \* the first clock reading of a conversion
  deadline,  \* RequestContext::deadline
  derived,   \* the callback's deadline on the wire
  delayed,   \* time passed between the two readings of a conversion, or the
             \* deadline was already over when the second one began
  adjusted   \* the wall clock was set after the deadline was written

deadlineVars == <<mono, wall, step, wire, read, deadline, derived, delayed, adjusted>>

Ms(ticks) == ticks \div PerMs
Ticks(ms) == ms * PerMs
Least(a, b) == IF a <= b THEN a ELSE b
Minus(a, b) == IF a >= b THEN a - b ELSE 0     \* saturating_sub

\* unix_ms_after: both times are rounded down to milliseconds.
UnixMsAfter(now, duration) == Least(Ms(now) + Ms(duration), MaxWire)

\* clamp_unix_ms
ClampUnixMs(now, ms) == Least(UnixMsAfter(now, Ticks(Horizon)), ms)

\* duration_until_unix_ms
DurationUntilUnixMs(now, ms) == Least(Ticks(Minus(ms, Ms(now))), Ticks(Horizon))

DeadlineInit ==
  /\ mono = 0
  /\ wall \in PerMs .. 2 * PerMs - 1
  /\ wire \in 0 .. MaxWire       \* a peer need not keep to the horizon
  /\ step = "written"
  /\ read = 0
  /\ deadline = 0
  /\ derived = 0
  /\ delayed = FALSE
  /\ adjusted = FALSE

BetweenReadings == step \in {"receiving", "deriving"}

Tick ==
  /\ step \notin {"sent", "expired"}
  /\ mono < MaxTime /\ wall < MaxTime
  /\ mono' = mono + 1
  /\ wall' = wall + 1
  /\ delayed' = (delayed \/ BetweenReadings)
  /\ UNCHANGED <<step, wire, read, deadline, derived, adjusted>>

\* The wall clock is set: by an administrator or by time synchronisation.
Adjust ==
  /\ step \notin {"sent", "expired"}
  /\ wall' \in {t \in {wall - PerMs, wall + PerMs} : t \in 0 .. MaxTime}
  /\ adjusted' = TRUE
  /\ UNCHANGED <<mono, step, wire, read, deadline, derived, delayed>>

\* instant_from_unix_ms: Instant::now(), then the wall clock.
ReceiveReadsInstant ==
  /\ step = "written"
  /\ read' = mono
  /\ step' = "receiving"
  /\ UNCHANGED <<mono, wall, wire, deadline, derived, delayed, adjusted>>

\* Mutant of ReceiveReadsWall: the horizon is not applied on receipt.
ReceiveReadsWall_Unclamped ==
  /\ step = "receiving"
  /\ deadline' = read + Ticks(Minus(wire, Ms(wall)))
  /\ step' = "received"
  /\ UNCHANGED <<mono, wall, wire, read, derived, delayed, adjusted>>

ReceiveReadsWall ==
  /\ step = "receiving"
  /\ deadline' = read + DurationUntilUnixMs(wall, wire)
  /\ step' = "received"
  /\ UNCHANGED <<mono, wall, wire, read, derived, delayed, adjusted>>

\* A request whose deadline has passed is not started.
Accept ==
  /\ step = "received"
  /\ step' = IF deadline > mono THEN "serving" ELSE "expired"
  /\ UNCHANGED <<mono, wall, wire, read, deadline, derived, delayed, adjusted>>

\* unix_ms_from_instant: the time remaining, then the wall clock.
DeriveReadsInstant ==
  /\ step = "serving"
  /\ read' = Minus(deadline, mono)
  /\ delayed' = (delayed \/ mono > deadline)
  /\ step' = "deriving"
  /\ UNCHANGED <<mono, wall, wire, deadline, derived, adjusted>>

DeriveReadsWall ==
  /\ step = "deriving"
  /\ derived' = UnixMsAfter(wall, read)
  /\ step' = "clamping"
  /\ UNCHANGED <<mono, wall, wire, read, deadline, delayed, adjusted>>

\* Peer::call clamps the derived deadline once more before it is written.
DeriveClamps ==
  /\ step = "clamping"
  /\ derived' = ClampUnixMs(wall, derived)
  /\ step' = "sending"
  /\ UNCHANGED <<mono, wall, wire, read, deadline, delayed, adjusted>>

\* The select around the callback's frame: it is not queued once the timer of
\* the request's deadline has fired.
CallbackSent ==
  /\ step = "sending"
  /\ mono < deadline + TimerSlack
  /\ step' = "sent"
  /\ UNCHANGED <<mono, wall, wire, read, deadline, derived, delayed, adjusted>>

CallbackExpires ==
  /\ step = "sending"
  /\ mono >= deadline
  /\ step' = "expired"
  /\ UNCHANGED <<mono, wall, wire, read, deadline, derived, delayed, adjusted>>

DeadlineOver == step \in {"sent", "expired"} /\ UNCHANGED deadlineVars

DeadlineNext == \/ Tick \/ Adjust \/ ReceiveReadsInstant \/ ReceiveReadsWall \/ Accept
        \/ DeriveReadsInstant \/ DeriveReadsWall \/ DeriveClamps
        \/ CallbackSent \/ CallbackExpires \/ DeadlineOver

DeadlineSpec == DeadlineInit /\ [][DeadlineNext]_deadlineVars

----------------------------------------------------------------------------
(* Properties *)

DeadlineTypeOK ==
  /\ mono \in Nat /\ wall \in Nat /\ wire \in 0 .. MaxWire
  /\ step \in {"written", "receiving", "received", "serving", "deriving", "clamping", "sending",
              "sent", "expired"}
  /\ read \in Nat /\ deadline \in Nat /\ derived \in 0 .. MaxWire
  /\ delayed \in BOOLEAN /\ adjusted \in BOOLEAN

\* No request is served for longer than MAX_DEADLINE_HORIZON, also when the
\* wall clock is set back after its deadline was written.
HorizonHolds == step = "serving" => deadline <= mono + Ticks(Horizon)

\* The callback's deadline is not later than its parent's when each conversion
\* reads its two clocks at the same time and the wall clock is not set: the
\* roundings of the two conversions never add up to a millisecond.  (The client
\* closes the session over a callback that outlives its parent.)  Proved as
\* PromptDerivation; what follows when time does pass is in RpcCallbacks.
PromptlyDerivedIsNotLater ==
  step = "sent" /\ ~delayed /\ ~adjusted => derived <= wire
=============================================================================
