--------------------------------- MODULE Agc ---------------------------------
(***************************************************************************)
(* The gain control: src/src/agc.c, the gains main sets before it, and the *)
(* freeze that paCallback computes for it.  agc_tune is called from main's *)
(* polling loop; it calibrates at first and then watches the link, one     *)
(* window of statistics at a time, until enough good packets lock the      *)
(* gains.                                                                  *)
(*                                                                         *)
(* A call of agc_tune tests the freeze and reads the clock (TuneBegins),   *)
(* and only after reading the statistics and writing the log does it store *)
(* gains (TuneCalibrate, TuneSteady): the callback may begin to transmit   *)
(* in between.  All else the call changes is read by no other thread.      *)
(*                                                                         *)
(* Gains are whole units of 1.5 dB.  Time is seconds since the moments the *)
(* code stores, each kept up to the longest the code compares it with; a   *)
(* call reads the clock once, so a second that passes during a call is     *)
(* counted after it.  What a window brings is any of the sets below: the   *)
(* counts received (a frame adds to sync and later to pkts or corrupt,     *)
(* perhaps in the next window), the level measured, in dB, and the sign of *)
(* the error the averaged power has (which depends on all levels since the *)
(* start).  The statistics are read a second time to be remembered         *)
(* (agc.c:110-112, 220-222, and 280-282 once more): a frame counted between *)
(* the readings is in no window, so windows are what the call judged, not  *)
(* all that arrived.                                                       *)
(***************************************************************************)
EXTENDS Integers

CONSTANTS
  TxMax, RxMax,        \* highest gains, the lowest being 0
  WarmGains,           \* gains main sets for its warm-up packets (2.5, 1.0)
  ReadyGains,          \* gains main sets when it has queued them (0.3, 1.0)
  BaseGains,           \* gains of the reset when calibration finds nothing
  GRID_STEPS,          \* steps up of each gain while calibrating (5)
  SETTLE, EARLY, CALIB,\* seconds: settle_secs 5, first phase of calibration 5, all of it 20
  COOLDOWN,            \* unlock_cooldown_secs (30)
  LOCK_THRESHOLD,      \* packets that lock (20)
  ECHO_THRESH,         \* windows of echo (3)
  UNLOCK_CORRUPT,      \* corrupt frames that unlock (5)
  RATE_SAMPLES,        \* packets a corruption rate is judged on (10)
  RMS_MIN, RMS_MAX,    \* the levels of rms_min and rms_max, in dB (-26, -3)
  DROP,                \* unlock_rssi_drop_db (6)
  HOLD,                \* callbacks the freeze outlasts the transmission (3)
  Windows, Levels      \* inputs

Gains == [tx : 0 .. TxMax, rx : 0 .. RxMax]

ASSUME AgcAssumption ==
  /\ {TxMax, RxMax, GRID_STEPS, EARLY, COOLDOWN, UNLOCK_CORRUPT, RATE_SAMPLES} \subseteq Nat
  /\ {SETTLE, CALIB, LOCK_THRESHOLD, ECHO_THRESH, HOLD} \subseteq Nat \ {0}
  /\ SETTLE >= 2
  /\ {WarmGains, ReadyGains, BaseGains} \subseteq Gains
  /\ Windows \subseteq [sync : Nat, pkts : Nat, corrupt : Nat]
  /\ Levels \cup {RMS_MIN, RMS_MAX} \subseteq Int /\ DROP \in Nat

VARIABLES
  main,              \* where main is: before its loop, in the loop, or in agc_tune
  gain,              \* audio->tx_gain, audio->rx_gain
  tx_active_frames,  \* callbacks the freeze still lasts; agc_freeze when not 0
  phase, calib_done, locked,
  locked_gain,       \* locked_tx_gain_db, locked_rx_gain_db
  best_rms,
  tx_step, rx_step,  \* calib_tx_gain_step, calib_rx_gain_step
  lock_good_streak,  \* up to LOCK_THRESHOLD
  echo_streak,       \* up to ECHO_THRESH
  adjusted,          \* seconds since last_adjust, up to SETTLE
  calib,             \* seconds since calib_start_time, up to CALIB, or Never
  unlocked,          \* seconds since last_unlock_time, up to COOLDOWN, or Never
  quiet,             \* history: callbacks since one had something to send, up to HOLD
  moved,             \* history: a gain was changed since this end began to transmit
  link               \* history: what the last window judged was like, its level if good

freezing == <<tx_active_frames, quiet>>
vars == <<main, moved, gain, phase, calib_done, locked, locked_gain, best_rms, tx_step, rx_step,
          lock_good_streak, echo_streak, adjusted, calib, unlocked, link, freezing>>

Never   == -1
NoLevel == -240   \* the level of best_rms 0, 20 log10(1e-12)
Least(a, b) == IF a < b THEN a ELSE b
Clamp(v, top) == IF v < 0 THEN 0 ELSE IF v > top THEN top ELSE v

\* Mutant: the limits are not applied.
TxUnclamped(n) == [gain EXCEPT !.tx = @ + n]

Tx(n) == [gain EXCEPT !.tx = Clamp(@ + n, TxMax)]
Rx(n) == [gain EXCEPT !.rx = Clamp(@ + n, RxMax)]

-----------------------------------------------------------------------------
(* What a window tells.                                                    *)

Echo(w)     == w.sync > 0 /\ w.pkts = 0 /\ w.corrupt >= w.sync
Silent(w)   == w.sync = 0 /\ w.pkts = 0
Good(w)     == w.pkts > 0 /\ w.corrupt = 0
Weak(rms)   == rms < RMS_MIN
Clipped(rms) == rms > RMS_MAX

\* Mutant: a silent link does not unlock.
UnlocksUnlessSilent(w, rms) ==
  \/ w.corrupt >= UNLOCK_CORRUPT
  \/ best_rms - rms >= DROP
  \/ w.pkts > RATE_SAMPLES /\ w.corrupt * 5 > w.pkts

\* A reason to let go of locked gains.
Unlocks(w, rms) ==
  \/ w.corrupt >= UNLOCK_CORRUPT
  \/ best_rms - rms >= DROP
  \/ Silent(w)
  \/ w.pkts > RATE_SAMPLES /\ w.corrupt * 5 > w.pkts

Describe(w, rms, err) ==
  LET like ==
        CASE Good(w) /\ rms >= RMS_MIN /\ rms <= RMS_MAX       -> "good"
          [] Echo(w) /\ w.corrupt >= UNLOCK_CORRUPT            -> "echo"
          [] Silent(w) /\ w.corrupt = 0 /\ Weak(rms) /\ err >= 0 -> "silent"
          [] OTHER -> IF w.pkts = 0 THEN "empty" ELSE "mixed"
  IN  [like |-> like, level |-> IF like = "good" THEN rms ELSE NoLevel]

-----------------------------------------------------------------------------
(* Calibration.                                                            *)

\* agc_tune reads the clock; the first call starts the calibration's.
Started == IF calib = Never THEN 0 ELSE calib

Interval == IF Started < EARLY THEN 1 ELSE 2

Converged(w, rms) == w.pkts > 0 /\ rms >= RMS_MIN /\ rms <= RMS_MAX

CalibEchoes(w) ==
  IF Echo(w) THEN Least(echo_streak + 1, ECHO_THRESH)
  ELSE IF w.pkts > 0 THEN 0 ELSE echo_streak

\* The calibration has converged: what was found is kept.
Converge(w, rms) ==
  /\ Converged(w, rms)
  /\ calib_done' = TRUE /\ best_rms' = rms
  /\ UNCHANGED <<gain, echo_streak, tx_step, rx_step>>

\* The converter clips.
CalibClip(w, rms) ==
  /\ ~Converged(w, rms) /\ Clipped(rms) /\ gain.rx > 0
  /\ gain' = Rx(-2)
  /\ UNCHANGED <<calib_done, best_rms, echo_streak, tx_step, rx_step>>

Loud(w, rms) == Converged(w, rms) \/ (Clipped(rms) /\ gain.rx > 0)
Backs(w)     == Echo(w) /\ CalibEchoes(w) >= ECHO_THRESH /\ gain.tx > 0
Noisy(w, rms) == w.sync = 0 /\ rms > RMS_MIN /\ rms < RMS_MAX /\ gain.rx > 0

\* The program hears itself.
CalibEcho(w, rms) ==
  /\ ~Loud(w, rms) /\ Backs(w)
  /\ gain' = Tx(-2) /\ echo_streak' = 0
  /\ UNCHANGED <<calib_done, best_rms, tx_step, rx_step>>

\* Noise without a sync word.
CalibNoise(w, rms) ==
  /\ ~Loud(w, rms) /\ ~Backs(w) /\ Noisy(w, rms)
  /\ gain' = Rx(-1) /\ echo_streak' = CalibEchoes(w)
  /\ UNCHANGED <<calib_done, best_rms, tx_step, rx_step>>

TxGrid == tx_step < GRID_STEPS /\ gain.tx < TxMax
RxGrid == rx_step < GRID_STEPS /\ gain.rx < RxMax

\* The search: the transmit gain first (2.3 dB a step), then the receive gain
\* (2.9 dB); with both at the top the search starts again, otherwise it waits.
CalibSearch(w, rms) ==
  /\ ~Loud(w, rms) /\ ~Backs(w) /\ ~Noisy(w, rms)
  /\ echo_streak' = CalibEchoes(w)
  /\ UNCHANGED <<calib_done, best_rms>>
  /\ \/ /\ TxGrid
        /\ \E n \in {1, 2} : gain' = Tx(n)
        /\ tx_step' = tx_step + 1 /\ UNCHANGED rx_step
     \/ /\ ~TxGrid /\ RxGrid
        /\ gain' = Rx(2)
        /\ rx_step' = rx_step + 1 /\ UNCHANGED tx_step
     \/ /\ ~TxGrid /\ ~RxGrid /\ gain = [tx |-> TxMax, rx |-> RxMax]
        /\ gain' = BaseGains
        /\ tx_step' = 0 /\ rx_step' = 0
     \/ /\ ~TxGrid /\ ~RxGrid /\ gain # [tx |-> TxMax, rx |-> RxMax]
        /\ UNCHANGED <<gain, tx_step, rx_step>>

\* Mutant: only convergence ends the calibration.
CalibratingUntilDone == phase = "CALIBRATING" /\ ~calib_done

\* The calibration goes on.
Calibrating == phase = "CALIBRATING" /\ Started < CALIB /\ ~calib_done

\* agc_tune up to the tests of the time: it returns if the gains are frozen, if
\* the last adjustment is too recent, or goes on to read the statistics.
TuneBegins ==
  /\ main = "idle" /\ tx_active_frames = 0
  /\ calib' = Started
  /\ \/ /\ Calibrating /\ UNCHANGED phase
        /\ main' = IF adjusted < Interval THEN "idle" ELSE "calibrate"
     \/ /\ ~Calibrating
        /\ phase' = IF phase = "CALIBRATING" THEN "STEADY" ELSE phase
        /\ main' = IF adjusted < SETTLE THEN "idle" ELSE "steady"
  /\ UNCHANGED <<gain, calib_done, locked, locked_gain, best_rms, tx_step, rx_step,
                 lock_good_streak, echo_streak, adjusted, unlocked, moved, link, freezing>>

\* History: a gain that changes while this end transmits, or soon after.
Moved == moved \/ (quiet < HOLD /\ gain' # gain)

\* agc_calibrate from its reading of the statistics on.
TuneCalibrate ==
  /\ main = "calibrate" /\ main' = "idle"
  /\ adjusted' = 0
  /\ \E w \in Windows, rms \in Levels :
       /\ \/ Converge(w, rms) \/ CalibClip(w, rms) \/ CalibEcho(w, rms)
          \/ CalibNoise(w, rms) \/ CalibSearch(w, rms)
       /\ link' = Describe(w, rms, 0)
  /\ moved' = Moved
  /\ UNCHANGED <<phase, locked, locked_gain, lock_good_streak, calib, unlocked, freezing>>

-----------------------------------------------------------------------------
(* The steady state.                                                       *)

\* Mutant: a silent window starts the count of echoes again.
EchoesInARow(w) ==
  IF w.pkts > 0 \/ Silent(w) THEN 0
  ELSE IF Echo(w) THEN Least(echo_streak + 1, ECHO_THRESH) ELSE echo_streak

Echoes(w) ==
  IF w.pkts > 0 THEN 0
  ELSE IF Echo(w) THEN Least(echo_streak + 1, ECHO_THRESH) ELSE echo_streak

\* The gains after a window that neither keeps nor takes the lock: the first
\* that applies of echo, clipping, the loop around the target level (a step of
\* at most one unit), silence.
Adjusted(w, rms, err) ==
  LET fired == Echoes(w) >= ECHO_THRESH
      still == Silent(w) /\ Weak(rms)
  IN  IF fired /\ gain.tx > 0                          THEN Tx(-2)
      ELSE IF fired /\ Weak(rms) /\ gain.rx < RxMax    THEN Rx(2)
      ELSE IF Clipped(rms) /\ gain.rx > 0              THEN Rx(-2)
      ELSE IF Rx(err) # gain                           THEN Rx(err)
      ELSE IF still /\ gain.rx < RxMax                 THEN Rx(2)
      ELSE IF still                                    THEN Tx(1)
      ELSE gain

\* last_unlock_time after the first part of agc_steady.
LetsGo(w, rms) == IF locked /\ Unlocks(w, rms) THEN 0 ELSE unlocked

\* Mutant: every window counts from nothing.
StreakOfWindow(w, rms) == IF Good(w) THEN Least(w.pkts, LOCK_THRESHOLD) ELSE 0

\* Good packets so far: a corrupt frame and an unlock start the count again.
Streak(w, rms) ==
  LET before == IF locked THEN 0 ELSE lock_good_streak
  IN  IF Good(w) THEN Least(before + w.pkts, LOCK_THRESHOLD)
      ELSE IF w.corrupt > 0 THEN 0 ELSE before

Locks(w, rms) ==
  /\ Good(w) /\ Streak(w, rms) >= LOCK_THRESHOLD
  /\ LetsGo(w, rms) \notin 0 .. COOLDOWN - 1

\* The lock is kept: nothing else is looked at.
KeepLock(w, rms) ==
  /\ locked /\ ~Unlocks(w, rms)
  /\ lock_good_streak' = 0
  /\ UNCHANGED <<gain, phase, locked, locked_gain, best_rms, echo_streak, unlocked>>

\* The gains are locked as they are.
Lock(w, rms) ==
  /\ ~locked \/ Unlocks(w, rms)
  /\ Locks(w, rms)
  /\ locked' = TRUE /\ phase' = "LOCKED"
  /\ locked_gain' = gain /\ best_rms' = rms
  /\ lock_good_streak' = 0 /\ unlocked' = LetsGo(w, rms)
  /\ UNCHANGED <<gain, echo_streak>>

\* Mutant: unlocking leaves the phase as it is.
AdjustKeepPhase(w, rms, err) ==
  /\ ~locked \/ Unlocks(w, rms)
  /\ ~Locks(w, rms)
  /\ locked' = FALSE
  /\ phase' = IF locked THEN phase ELSE "STEADY"
  /\ lock_good_streak' = Streak(w, rms) /\ unlocked' = LetsGo(w, rms)
  /\ echo_streak' = IF Echoes(w) >= ECHO_THRESH THEN 0 ELSE Echoes(w)
  /\ gain' = Adjusted(w, rms, err)
  /\ UNCHANGED <<locked_gain, best_rms>>

\* The gains are not locked, or no longer: the same call adjusts them.
Adjust(w, rms, err) ==
  /\ ~locked \/ Unlocks(w, rms)
  /\ ~Locks(w, rms)
  /\ locked' = FALSE /\ phase' = "STEADY"
  /\ lock_good_streak' = Streak(w, rms) /\ unlocked' = LetsGo(w, rms)
  /\ echo_streak' = IF Echoes(w) >= ECHO_THRESH THEN 0 ELSE Echoes(w)
  /\ gain' = Adjusted(w, rms, err)
  /\ UNCHANGED <<locked_gain, best_rms>>

\* agc_steady from its reading of the statistics on.
TuneSteady ==
  /\ main = "steady" /\ main' = "idle"
  /\ adjusted' = 0
  /\ \E w \in Windows, rms \in Levels, err \in -1 .. 1 :
       /\ KeepLock(w, rms) \/ Lock(w, rms) \/ Adjust(w, rms, err)
       /\ link' = Describe(w, rms, err)
  /\ moved' = Moved
  /\ UNCHANGED <<calib_done, tx_step, rx_step, calib, freezing>>

-----------------------------------------------------------------------------
\* Mutant: the freeze ends with the transmission.
HeldUnheld(active) == IF active THEN HOLD ELSE 0

Held(active) ==
  IF active THEN HOLD ELSE IF tx_active_frames > 0 THEN tx_active_frames - 1 ELSE 0

\* paCallback, which finds whole bytes in tx_rb or not.
Callback(active) ==
  /\ tx_active_frames' = Held(active)
  /\ quiet' = IF active THEN 0 ELSE Least(quiet + 1, HOLD)
  /\ moved' = (moved /\ quiet' < HOLD)
  /\ UNCHANGED <<main, gain, phase, calib_done, locked, locked_gain, best_rms, tx_step, rx_step,
                 lock_good_streak, echo_streak, adjusted, calib, unlocked, link>>

\* main has put its warm-up packets into tx_rb, which may take longer to send
\* than to put, and lowers the gains.
LowerGains ==
  /\ main = "warmup" /\ main' = "idle"
  /\ gain' = ReadyGains /\ moved' = Moved
  /\ UNCHANGED <<phase, calib_done, locked, locked_gain, best_rms, tx_step, rx_step,
                 lock_good_streak, echo_streak, adjusted, calib, unlocked, link, freezing>>

Older(age, top) == IF age = Never THEN Never ELSE Least(age + 1, top)

\* A second passes.
Tick ==
  /\ main \in {"warmup", "idle"}
  /\ adjusted' = Least(adjusted + 1, SETTLE)
  /\ calib'    = Older(calib, CALIB)
  /\ unlocked' = Older(unlocked, COOLDOWN)
  /\ UNCHANGED <<gain, phase, calib_done, locked, locked_gain, best_rms, tx_step, rx_step,
                 lock_good_streak, echo_streak, main, moved, link, freezing>>

\* agc_init, and the gains for the warm-up; last_adjust is 0, long ago.
Init ==
  /\ main = "warmup" /\ moved = FALSE
  /\ gain = WarmGains /\ locked_gain = [tx |-> 0, rx |-> 0]
  /\ phase = "CALIBRATING" /\ calib_done = FALSE /\ locked = FALSE
  /\ best_rms = NoLevel
  /\ tx_step = 0 /\ rx_step = 0 /\ lock_good_streak = 0 /\ echo_streak = 0
  /\ adjusted = SETTLE /\ calib = Never /\ unlocked = Never
  /\ tx_active_frames = 0 /\ quiet = HOLD
  /\ link = [like |-> "mixed", level |-> NoLevel]

Main == LowerGains \/ TuneBegins \/ TuneCalibrate \/ TuneSteady

Next == \/ Main \/ Tick
        \/ \E active \in BOOLEAN : Callback(active)

\* Main, whose loop calls agc_tune, and the clock go on.
Fairness == WF_vars(Main) /\ WF_vars(Tick)

Spec == Init /\ [][Next]_vars /\ Fairness

-----------------------------------------------------------------------------
\* Gains stay between their limits and every age, count and flag in its range.
TypeOK ==
  /\ {gain, locked_gain} \subseteq Gains
  /\ tx_active_frames \in 0 .. HOLD /\ quiet \in 0 .. HOLD
  /\ phase \in {"CALIBRATING", "STEADY", "LOCKED"}
  /\ {calib_done, locked} \subseteq BOOLEAN
  /\ best_rms \in Levels \cup {NoLevel}
  /\ tx_step \in 0 .. GRID_STEPS /\ rx_step \in 0 .. GRID_STEPS
  /\ lock_good_streak \in 0 .. LOCK_THRESHOLD /\ echo_streak \in 0 .. ECHO_THRESH
  /\ adjusted \in 0 .. SETTLE /\ calib \in Never .. CALIB
  /\ unlocked \in Never .. COOLDOWN
  /\ main \in {"warmup", "idle", "calibrate", "steady"} /\ moved \in BOOLEAN
  /\ link \in [like : {"good", "echo", "silent", "empty", "mixed"}, level : Levels \cup {NoLevel}]

\* The flag, the phase and the gains noted when locking tell the same story:
\* locked gains are the ones in use, through every unlock and new lock, and a
\* lock that was let go of is in its first seconds dated by last_unlock_time.
LockAgrees ==
  /\ locked <=> phase = "LOCKED"
  /\ locked => gain = locked_gain
  /\ locked => unlocked \notin 0 .. COOLDOWN - 1

\* From the first callback that finds something to send to the last of the HOLD
\* after it, the gains change once at most: by the one call that had passed the
\* test of the freeze, or by main when it ends the warm-up.  And the call that
\* keeps a lock never moves a gain.
GainsHeld ==
  [][gain' # gain => ~moved /\ ~(locked /\ locked')]_vars

Listening == tx_active_frames = 0

\* With or without a link the calibration ends, for good, if this end stops
\* transmitting: only agc_tune looks at the clock, and not while frozen.
CalibrationEnds == <>[]Listening => <>[](phase # "CALIBRATING")

\* A link that is good from some time on, its levels less than DROP apart, is
\* locked from some time on, whatever unlocked it before and at whatever level
\* its last lock was taken.
GoodLinkLocks ==
  \A low \in Levels :
    <>[](Listening /\ link.like = "good" /\ link.level \in low .. low + DROP - 1) => <>[]locked

\* Silence for ever raises both gains to the top, from any gains and past the
\* resets of the calibration.
SilenceRaises ==
  <>[](Listening /\ link.like = "silent") => <>[](gain = [tx |-> TxMax, rx |-> RxMax])

\* A window is being judged; when this recurs, the transmissions leave gaps.
Judging == main \in {"calibrate", "steady"}

\* The program hears its own frames, back from the room, between and during its
\* transmissions, and no packet.  If all windows are such, the transmit gain goes
\* down all the way.  If others are silent or empty, which raises the gain again,
\* it still never settles anywhere above the bottom.
EchoBacksOff ==
  /\ []<>Judging /\ <>[](link.like = "echo") => <>[](gain.tx = 0)
  /\ []<>Judging /\ []<>(link.like = "echo") /\ <>[](link.like \in {"echo", "silent", "empty"})
       => \A n \in 1 .. TxMax : []<>(gain.tx # n)
=============================================================================
