----------------------------- MODULE HorizonGate -----------------------------
(* The adaptive gate of terrain horizon culling: a record that suspends the
   culling while it gains nothing or the eye flies, and resumes through Warming.
   Positions are points of a line, times are ticks, and meshes culled and nodes
   pruned are one gain per frame.                                              *)
EXTENDS Integers, Sequences, FiniteSetsExt

CONSTANTS
  EvalWindow,     \* GATE_EVAL_WINDOW
  GainFloor,      \* GATE_CULL_FLOOR, GATE_PRUNE_FLOOR
  SuspendWindows, \* GATE_SUSPEND_WINDOWS
  ProbeInterval,  \* GATE_PROBE_INTERVAL
  BackoffCap,     \* GATE_PROBE_BACKOFF_CAP
  MoveTrigger,    \* GATE_PROBE_MOVE_TRIGGER
  FastWindow,     \* GATE_FAST_WINDOW
  FastEnter,      \* GATE_FAST_ENTER_COUNT
  FastExit,       \* GATE_FAST_EXIT_COUNT
  WarmTimeout,    \* GATE_WARM_TIMEOUT
  NoEye           \* last_eye == None

ASSUME GateAssumption ==
  /\ {EvalWindow, SuspendWindows, ProbeInterval, FastWindow, WarmTimeout, MoveTrigger} \subseteq Nat \ {0}
  /\ {GainFloor, BackoffCap, FastEnter, FastExit} \subseteq Nat
  /\ ProbeInterval <= BackoffCap /\ FastExit < FastEnter /\ FastEnter <= FastWindow
  /\ NoEye \notin Int

NewGate(enabled) ==
  [enabled |-> enabled, state |-> "inactive", probing |-> FALSE,
   frames |-> 0, gain |-> 0, lowWindows |-> 0, lastEye |-> NoEye, fast |-> <<>>,
   moved |-> 0, suspendedFor |-> 0, timed |-> FALSE, backoff |-> ProbeInterval,
   warmFrames |-> 0, warmPosted |-> FALSE]

Mode(g) ==
  IF ~g.enabled \/ g.state = "active" THEN "active"
  ELSE IF g.state = "warming" THEN "warming" ELSE "suspended"

IsWarming(g) == g.enabled /\ g.state = "warming"

ResetEval(g) == [g EXCEPT !.frames = 0, !.gain = 0]

ResetCounters(g) ==
  [ResetEval(g) EXCEPT !.lowWindows = 0, !.moved = 0, !.suspendedFor = 0, !.timed = FALSE,
                       !.warmFrames = 0, !.warmPosted = FALSE]

ResetTracking(g) ==
  [ResetCounters(g) EXCEPT !.lastEye = NoEye, !.fast = <<>>, !.backoff = ProbeInterval]

Become(g, state, probing) == [g EXCEPT !.state = state, !.probing = probing]

EnterWarming(g) == Become(ResetCounters(g), "warming", FALSE)

\* Mutant: the backoff doubles past its cap.
DoubledUncapped(backoff) == 2 * backoff
Doubled(backoff) == Min({2 * backoff, BackoffCap})

\* Mutant: the counters are reset after the time of suspension was stored.
SuspendUntimed(g, failedProbe) ==
  Become([ResetCounters(g) EXCEPT !.backoff = IF failedProbe THEN Doubled(@) ELSE @],
         "suspendedLowBenefit", FALSE)
Suspend(g, failedProbe) ==
  Become([ResetCounters(g) EXCEPT !.backoff = IF failedProbe THEN Doubled(@) ELSE @, !.timed = TRUE],
         "suspendedLowBenefit", FALSE)

---------------------------------------------------------------------------
(* What the runtime tells the gate. *)

SetEnabled(g, enabled) ==
  IF g.enabled = enabled THEN g
  ELSE Become(ResetTracking([g EXCEPT !.enabled = enabled]), "active", FALSE)

OnConfigChange(g) == IF g.enabled THEN EnterWarming(g) ELSE g

OnContextLost(g) == IF g.enabled THEN ResetTracking(Become(g, "inactive", FALSE)) ELSE g

OnContextAvailable(g) == IF g.enabled /\ g.state = "inactive" THEN EnterWarming(g) ELSE g

OnWarmBuildPosted(g) == [g EXCEPT !.warmPosted = @ \/ IsWarming(g)]

OnWarmAdopted(g) ==
  IF IsWarming(g) THEN Become([ResetEval(g) EXCEPT !.warmPosted = FALSE], "active", TRUE) ELSE g

---------------------------------------------------------------------------
(* One rendered frame. *)

Distance(a, b) == IF a < b THEN b - a ELSE a - b

TickActive(g, gain) ==
  LET counted == [g EXCEPT !.frames = @ + 1, !.gain = @ + gain]
      low == counted.lowWindows + 1
  IN IF counted.frames < EvalWindow THEN counted
     ELSE IF counted.gain >= GainFloor * counted.frames
     THEN ResetEval([counted EXCEPT !.lowWindows = 0, !.probing = FALSE,
                                    !.backoff = IF g.probing THEN ProbeInterval ELSE @])
     ELSE IF g.probing THEN Suspend(counted, TRUE)
     ELSE IF low >= SuspendWindows THEN Suspend(counted, FALSE)
     ELSE ResetEval([counted EXCEPT !.lowWindows = low])

TickLowBenefit(g, displacement) ==
  LET walked == [g EXCEPT !.moved = @ + displacement]
  IN IF walked.moved >= MoveTrigger THEN EnterWarming([walked EXCEPT !.backoff = ProbeInterval])
     ELSE IF walked.timed /\ walked.suspendedFor >= walked.backoff THEN EnterWarming(walked)
     ELSE walked

FastCount(g) == Cardinality({i \in DOMAIN g.fast : g.fast[i]})

TickFast(g) ==
  IF Len(g.fast) = FastWindow /\ FastCount(g) <= FastExit THEN EnterWarming(g) ELSE g

\* Mutant: only a warm build that was posted can time out.
TickWarmingPosted(g) ==
  LET warm == [g EXCEPT !.warmFrames = IF g.warmPosted THEN @ + 1 ELSE @]
  IN IF warm.warmFrames >= WarmTimeout THEN Suspend(warm, TRUE) ELSE warm
TickWarming(g) ==
  LET warm == [g EXCEPT !.warmFrames = @ + 1]
  IN IF warm.warmFrames >= WarmTimeout THEN Suspend(warm, TRUE) ELSE warm

NoteFast(g, fast) ==
  [g EXCEPT !.fast = IF Len(@) < FastWindow THEN Append(@, fast) ELSE Append(Tail(@), fast)]

OnFrame(g, eye, gain, fastDistance) ==
  LET displacement == IF g.lastEye = NoEye THEN 0 ELSE Distance(g.lastEye, eye)
      noted == NoteFast([g EXCEPT !.lastEye = eye], displacement > fastDistance)
  IN IF ~g.enabled \/ g.state = "inactive" THEN [g EXCEPT !.lastEye = eye]
     ELSE IF noted.state # "suspendedFast" /\ Len(noted.fast) = FastWindow /\ FastCount(noted) >= FastEnter
     THEN ResetCounters(Become(noted, "suspendedFast", FALSE))
     ELSE CASE g.state = "active" -> TickActive(noted, gain)
            [] g.state = "suspendedLowBenefit" -> TickLowBenefit(noted, displacement)
            [] g.state = "suspendedFast" -> TickFast(noted)
            [] g.state = "warming" -> TickWarming(noted)

\* Instant::now() moves on; only the time since a suspension is ever read.
Elapse(g) == [g EXCEPT !.suspendedFor = IF g.timed THEN Min({@ + 1, BackoffCap}) ELSE @]
=============================================================================
