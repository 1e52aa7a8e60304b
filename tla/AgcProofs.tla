------------------------------ MODULE AgcProofs ------------------------------
(***************************************************************************)
(* Proofs about the gain control, for every range of gains, every window   *)
(* and level, and every setting of the times and thresholds.               *)
(*                                                                         *)
(* AgcInv adds to the type invariant and LockAgrees that the freeze of     *)
(* paCallback counts down exactly as fast as the quiet callbacks count up, *)
(* that nothing has moved during the transmission for which a call of      *)
(* agc_tune, or main's warm-up, is still to move a gain, and that these    *)
(* find the phase they began with.                                         *)
(***************************************************************************)
EXTENDS Agc, TLAPS

FreezeCounts == tx_active_frames + quiet = HOLD

\* What is still to be stored is the first to move a gain.
OneInHand == (main # "idle" \/ quiet = HOLD) => moved = FALSE

InCalibration == main \in {"warmup", "calibrate"} => phase = "CALIBRATING"

AgcInv == TypeOK /\ LockAgrees /\ FreezeCounts /\ OneInHand /\ InCalibration

\* A clamped step keeps the gains within their limits.
LEMMA StepFacts ==
  ASSUME gain \in Gains, NEW n \in Int
  PROVE  Tx(n) \in Gains /\ Rx(n) \in Gains
<1>1. TxMax \in Nat /\ RxMax \in Nat
  BY AgcAssumption
<1>2. /\ gain = [tx |-> gain.tx, rx |-> gain.rx]
      /\ gain.tx \in 0 .. TxMax /\ gain.rx \in 0 .. RxMax
  BY DEF Gains
<1>3. \A v \in Int : Clamp(v, TxMax) \in 0 .. TxMax /\ Clamp(v, RxMax) \in 0 .. RxMax
  BY <1>1 DEF Clamp
<1>4. gain.tx + n \in Int /\ gain.rx + n \in Int
  BY <1>1, <1>2
<1>5. Clamp(gain.tx + n, TxMax) \in 0 .. TxMax /\ Clamp(gain.rx + n, RxMax) \in 0 .. RxMax
  BY <1>3, <1>4
<1> QED BY <1>2, <1>5 DEF Tx, Rx, Gains

LEMMA AdjustedFacts ==
  ASSUME gain \in Gains, NEW w, NEW rms, NEW err \in -1 .. 1
  PROVE  Adjusted(w, rms, err) \in Gains
<1>1. /\ Tx(-2) \in Gains /\ Rx(2) \in Gains /\ Rx(-2) \in Gains /\ Rx(err) \in Gains
      /\ Tx(1) \in Gains
  BY StepFacts
<1> QED BY <1>1 DEF Adjusted

\* What each measured window is described as.
LEMMA DescribeFacts ==
  ASSUME NEW w, NEW rms \in Levels, NEW err
  PROVE  Describe(w, rms, err) \in
           [like : {"good", "echo", "silent", "empty", "mixed"}, level : Levels \cup {NoLevel}]
BY DEF Describe

\* The numbers that counts and ages may reach.
LEMMA CountFacts ==
  ASSUME TypeOK
  PROVE  /\ HOLD \in Nat /\ HOLD > 0 /\ quiet \in 0 .. HOLD /\ tx_active_frames \in 0 .. HOLD
         /\ SETTLE \in Nat /\ adjusted \in 0 .. SETTLE
         /\ CALIB \in Nat /\ CALIB > 0 /\ calib \in -1 .. CALIB
         /\ COOLDOWN \in Nat /\ unlocked \in -1 .. COOLDOWN
         /\ LOCK_THRESHOLD \in Nat /\ lock_good_streak \in 0 .. LOCK_THRESHOLD
         /\ ECHO_THRESH \in Nat /\ echo_streak \in 0 .. ECHO_THRESH
         /\ GRID_STEPS \in Nat /\ tx_step \in 0 .. GRID_STEPS /\ rx_step \in 0 .. GRID_STEPS
BY AgcAssumption DEF TypeOK, Never

\* The gains the code stores as they are, and the window before the first.
LEMMA StartFacts ==
  /\ {WarmGains, ReadyGains, BaseGains} \subseteq Gains
  /\ [like |-> "mixed", level |-> NoLevel] \in
       [like : {"good", "echo", "silent", "empty", "mixed"}, level : Levels \cup {NoLevel}]
BY AgcAssumption

\* When main stores the gains it had in hand, nothing else is in hand any more.
LEMMA MovedFacts ==
  ASSUME moved \in BOOLEAN, main # "idle" => moved = FALSE, quiet' = quiet,
         moved' = Moved, main' = "idle", main # "idle"
  PROVE  moved' \in BOOLEAN /\ OneInHand'
<1>1. moved = FALSE
  OBVIOUS
<1>2. Moved = (quiet < HOLD /\ gain' # gain)
  BY <1>1, Zenon DEF Moved
<1>3. moved' \in BOOLEAN
  BY <1>2
<1>4. ASSUME quiet' = HOLD PROVE moved' = FALSE
  <2>1. HOLD \in Nat /\ ~(quiet < HOLD)
    BY <1>4, AgcAssumption
  <2> QED BY <1>2, <2>1
<1> QED BY <1>3, <1>4 DEF OneInHand

LEMMA InitInv == Init => AgcInv
<1> SUFFICES ASSUME Init PROVE AgcInv
  OBVIOUS
<1>1. /\ {HOLD, SETTLE, CALIB, COOLDOWN, LOCK_THRESHOLD, ECHO_THRESH, GRID_STEPS} \subseteq Nat
      /\ TxMax \in Nat /\ RxMax \in Nat
  BY AgcAssumption
<1>2. [tx |-> 0, rx |-> 0] \in Gains
  BY <1>1 DEF Gains
<1>3. TypeOK
  <2>1. /\ 0 \in 0 .. HOLD /\ HOLD \in 0 .. HOLD /\ SETTLE \in 0 .. SETTLE
        /\ 0 \in 0 .. GRID_STEPS /\ 0 \in 0 .. LOCK_THRESHOLD /\ 0 \in 0 .. ECHO_THRESH
        /\ -1 \in -1 .. CALIB /\ -1 \in -1 .. COOLDOWN
    BY <1>1
  <2>2. gain \in Gains /\ locked_gain \in Gains
    BY <1>2, StartFacts DEF Init
  <2> QED BY <2>1, <2>2, StartFacts DEF Init, TypeOK, Never
<1>4. FreezeCounts
  BY <1>1 DEF Init, FreezeCounts
<1> QED BY <1>3, <1>4 DEF Init, AgcInv, LockAgrees, OneInHand, InCalibration

\* main's lowering of the gains: nothing is locked before its loop.
LEMMA LowerGainsInv ==
  ASSUME AgcInv, LowerGains
  PROVE  AgcInv'
<1>1. /\ TypeOK /\ LockAgrees /\ FreezeCounts /\ OneInHand
      /\ main = "warmup" /\ main' = "idle" /\ phase = "CALIBRATING" /\ ~locked
  BY DEF AgcInv, LowerGains, InCalibration, LockAgrees
<1>2. moved' \in BOOLEAN /\ OneInHand'
  BY <1>1, MovedFacts DEF LowerGains, OneInHand, TypeOK, freezing
<1>3. TypeOK'
  BY <1>1, <1>2, StartFacts DEF LowerGains, TypeOK, freezing
<1> QED BY <1>1, <1>2, <1>3
        DEF LowerGains, AgcInv, LockAgrees, FreezeCounts, InCalibration, freezing

\* agc_tune before it reads the statistics: only a call that finds the gains
\* not frozen goes on, and nothing has moved in a transmission that is over.
LEMMA TuneBeginsInv ==
  ASSUME AgcInv, TuneBegins
  PROVE  AgcInv'
<1>1. TypeOK /\ LockAgrees /\ FreezeCounts /\ OneInHand
  BY DEF AgcInv
<1>2. calib' \in -1 .. CALIB
  BY <1>1, CountFacts DEF TuneBegins, Started, Never
<1>3. /\ UNCHANGED <<gain, calib_done, locked, locked_gain, best_rms, tx_step, rx_step,
                     lock_good_streak, echo_streak, adjusted, unlocked, moved, link, freezing>>
      /\ main' \in {"warmup", "idle", "calibrate", "steady"}
      /\ phase' \in {"CALIBRATING", "STEADY", "LOCKED"}
      /\ phase' = "LOCKED" <=> phase = "LOCKED"
      /\ main' \in {"warmup", "calibrate"} => phase' = "CALIBRATING"
  BY <1>1 DEF TuneBegins, TypeOK, Calibrating
<1>4. TypeOK'
  BY <1>1, <1>2, <1>3 DEF TypeOK, freezing, Never
<1>5. quiet = HOLD
  BY <1>1, CountFacts DEF TuneBegins, FreezeCounts
<1>6. OneInHand'
  BY <1>1, <1>3, <1>5 DEF OneInHand
<1> QED BY <1>1, <1>3, <1>4, <1>6 DEF AgcInv, LockAgrees, FreezeCounts, InCalibration, freezing


\* agc_calibrate: it moves gains, but only before anything can be locked.
LEMMA TuneCalibrateInv ==
  ASSUME AgcInv, TuneCalibrate
  PROVE  AgcInv'
<1>1. TypeOK /\ LockAgrees /\ FreezeCounts /\ OneInHand /\ phase = "CALIBRATING" /\ ~locked
  BY DEF AgcInv, LockAgrees, TuneCalibrate, InCalibration
<1>2. BaseGains \in Gains /\ gain \in Gains
  BY <1>1, StartFacts DEF TypeOK
<1>3. /\ UNCHANGED <<phase, locked, locked_gain, lock_good_streak, calib, unlocked, freezing>>
      /\ main = "calibrate" /\ main' = "idle" /\ moved' = Moved
  BY DEF TuneCalibrate
<1>4. moved' \in BOOLEAN /\ OneInHand'
  BY <1>1, <1>3, MovedFacts DEF OneInHand, TypeOK, freezing
<1>5. ASSUME adjusted' = 0, NEW w \in Windows, NEW rms \in Levels,
             link' = Describe(w, rms, 0),
             \/ Converge(w, rms) \/ CalibClip(w, rms) \/ CalibEcho(w, rms)
             \/ CalibNoise(w, rms) \/ CalibSearch(w, rms)
      PROVE  AgcInv'
  <2>1. /\ Tx(-2) \in Gains /\ Tx(1) \in Gains /\ Tx(2) \in Gains
        /\ Rx(-2) \in Gains /\ Rx(-1) \in Gains /\ Rx(2) \in Gains
    BY <1>2, StepFacts
  <2>2. gain' \in Gains
    BY <1>2, <1>5, <2>1 DEF Converge, CalibClip, CalibEcho, CalibNoise, CalibSearch
  <2>3. CalibEchoes(w) \in 0 .. ECHO_THRESH
    BY <1>1, CountFacts DEF CalibEchoes, Least
  <2>4. echo_streak' \in 0 .. ECHO_THRESH
    BY <1>1, <1>5, <2>3, CountFacts
    DEF Converge, CalibClip, CalibEcho, CalibNoise, CalibSearch
  <2>5. tx_step' \in 0 .. GRID_STEPS /\ rx_step' \in 0 .. GRID_STEPS
    BY <1>1, <1>5, CountFacts
    DEF Converge, CalibClip, CalibEcho, CalibNoise, CalibSearch, TxGrid, RxGrid
  <2>6. calib_done' \in BOOLEAN /\ best_rms' \in Levels \cup {NoLevel}
    BY <1>1, <1>5 DEF TypeOK, Converge, CalibClip, CalibEcho, CalibNoise, CalibSearch
  <2>7. link' \in [like : {"good", "echo", "silent", "empty", "mixed"},
                   level : Levels \cup {NoLevel}]
    BY <1>5, DescribeFacts
  <2>8. adjusted' \in 0 .. SETTLE
    BY <1>1, <1>5, CountFacts
  <2>9. TypeOK'
    BY <1>1, <1>2, <1>3, <1>4, <2>2, <2>4, <2>5, <2>6, <2>7, <2>8 DEF TypeOK, freezing
  <2> QED BY <1>1, <1>3, <1>4, <2>9 DEF AgcInv, LockAgrees, FreezeCounts, InCalibration, freezing
<1> QED BY <1>5 DEF TuneCalibrate

\* agc_steady: the lock kept, taken, or let go of in the call that adjusts.
LEMMA TuneSteadyInv ==
  ASSUME AgcInv, TuneSteady
  PROVE  AgcInv'
<1>1. TypeOK /\ LockAgrees /\ FreezeCounts /\ OneInHand /\ gain \in Gains /\ locked_gain \in Gains
  BY DEF AgcInv, TypeOK
<1>3. /\ UNCHANGED <<calib_done, tx_step, rx_step, calib, freezing>>
      /\ main = "steady" /\ main' = "idle" /\ moved' = Moved
  BY DEF TuneSteady
<1>4. moved' \in BOOLEAN /\ OneInHand'
  BY <1>1, <1>3, MovedFacts DEF OneInHand, TypeOK, freezing
<1>5. ASSUME adjusted' = 0, NEW w \in Windows, NEW rms \in Levels, NEW err \in -1 .. 1,
             link' = Describe(w, rms, err),
             KeepLock(w, rms) \/ Lock(w, rms) \/ Adjust(w, rms, err)
      PROVE  AgcInv'
  <2>1. w.pkts \in Nat
    BY AgcAssumption
  <2>2. Streak(w, rms) \in 0 .. LOCK_THRESHOLD /\ Echoes(w) \in 0 .. ECHO_THRESH
    BY <1>1, <2>1, CountFacts DEF Streak, Echoes, Least
  <2>3. LetsGo(w, rms) \in -1 .. COOLDOWN
    BY <1>1, CountFacts DEF LetsGo
  <2>4. /\ link' \in [like : {"good", "echo", "silent", "empty", "mixed"},
                     level : Levels \cup {NoLevel}]
        /\ adjusted' \in 0 .. SETTLE
        /\ 0 \in 0 .. LOCK_THRESHOLD /\ 0 \in 0 .. ECHO_THRESH
    BY <1>1, <1>5, CountFacts, DescribeFacts
  <2>5. CASE KeepLock(w, rms)
    <3>1. TypeOK'
      BY <1>1, <1>3, <1>4, <2>4, <2>5 DEF KeepLock, TypeOK, freezing, Never
    <3> QED BY <1>1, <1>3, <1>4, <2>5, <3>1
        DEF KeepLock, AgcInv, LockAgrees, FreezeCounts, InCalibration, freezing
  <2>6. CASE Lock(w, rms)
    <3>1. TypeOK'
      BY <1>1, <1>3, <1>4, <2>3, <2>4, <2>6 DEF Lock, TypeOK, freezing, Never
    <3>2. LockAgrees'
      BY <2>6 DEF Lock, Locks, LockAgrees
    <3> QED BY <1>1, <1>3, <1>4, <3>1, <3>2 DEF AgcInv, FreezeCounts, InCalibration, freezing
  <2>7. CASE Adjust(w, rms, err)
    <3>1. gain' \in Gains
      BY <1>1, <2>7, AdjustedFacts DEF Adjust
    <3>2. echo_streak' \in 0 .. ECHO_THRESH
      BY <2>2, <2>4, <2>7 DEF Adjust
    <3>3. TypeOK'
      BY <1>1, <1>3, <1>4, <2>2, <2>3, <2>4, <2>7, <3>1, <3>2
      DEF Adjust, TypeOK, freezing, Never
    <3> QED BY <1>1, <1>3, <1>4, <2>7, <3>3
        DEF Adjust, AgcInv, LockAgrees, FreezeCounts, InCalibration, freezing
  <2> QED BY <1>5, <2>5, <2>6, <2>7
<1> QED BY <1>5 DEF TuneSteady

LEMMA CallbackInv ==
  ASSUME AgcInv, NEW active \in BOOLEAN, Callback(active)
  PROVE  AgcInv'
<1>1. TypeOK /\ LockAgrees /\ FreezeCounts /\ OneInHand
  BY DEF AgcInv
<1>2. /\ tx_active_frames' \in 0 .. HOLD /\ quiet' \in 0 .. HOLD
      /\ tx_active_frames' + quiet' = HOLD
  BY <1>1, CountFacts DEF Callback, Held, Least, FreezeCounts
<1>3. /\ moved' = (moved /\ quiet' < HOLD) /\ moved' \in BOOLEAN
      /\ main' = main /\ phase' = phase
  BY DEF Callback
<1>4. TypeOK'
  BY <1>1, <1>2, <1>3 DEF Callback, TypeOK
<1>5. OneInHand'
  <2>1. ASSUME main' # "idle" PROVE moved' = FALSE
    BY <1>1, <1>3, <2>1 DEF OneInHand
  <2>2. ASSUME quiet' = HOLD PROVE moved' = FALSE
    <3>1. ~(quiet' < HOLD)
      BY <1>1, <2>2, CountFacts
    <3> QED BY <1>3, <3>1
  <2> QED BY <2>1, <2>2 DEF OneInHand
<1> QED BY <1>1, <1>2, <1>3, <1>4, <1>5 DEF Callback, AgcInv, LockAgrees, FreezeCounts, InCalibration

LEMMA TickInv ==
  ASSUME AgcInv, Tick
  PROVE  AgcInv'
<1>1. TypeOK /\ LockAgrees /\ FreezeCounts /\ OneInHand
  BY DEF AgcInv
<1>2. /\ adjusted' \in 0 .. SETTLE /\ calib' \in -1 .. CALIB /\ unlocked' \in -1 .. COOLDOWN
      /\ unlocked \notin 0 .. COOLDOWN - 1 => unlocked' \notin 0 .. COOLDOWN - 1
  BY <1>1, CountFacts DEF Tick, Older, Least, Never
<1>3. TypeOK'
  BY <1>1, <1>2 DEF Tick, TypeOK, freezing, Never
<1> QED BY <1>1, <1>2, <1>3
    DEF Tick, AgcInv, LockAgrees, FreezeCounts, OneInHand, InCalibration, freezing

LEMMA NextInv == AgcInv /\ [Next]_vars => AgcInv'
<1> SUFFICES ASSUME AgcInv, [Next]_vars PROVE AgcInv'
  OBVIOUS
<1>1. CASE TuneCalibrate
  BY <1>1, TuneCalibrateInv
<1>2. CASE TuneSteady
  BY <1>2, TuneSteadyInv
<1>3. CASE Tick
  BY <1>3, TickInv
<1>4. ASSUME NEW active \in BOOLEAN, Callback(active) PROVE AgcInv'
  BY <1>4, CallbackInv
<1>5. CASE LowerGains
  BY <1>5, LowerGainsInv
<1>6. CASE TuneBegins
  BY <1>6, TuneBeginsInv
<1>7. CASE UNCHANGED vars
  BY <1>7 DEF vars, freezing, AgcInv, TypeOK, LockAgrees, FreezeCounts, OneInHand, InCalibration
<1> QED BY <1>1, <1>2, <1>3, <1>4, <1>5, <1>6, <1>7 DEF Next, Main

-----------------------------------------------------------------------------
(* The theorems.                                                           *)

\* The strengthened invariant holds of every behaviour of agc_tune, the clock
\* and the callback.
THEOREM AgcCorrect == Spec => []AgcInv
BY InitInv, NextInv, PTL DEF Spec

\* Gains never leave the limits agc_init sets, and no count or age its range.
THEOREM AgcTypeCorrect == Spec => []TypeOK
<1>1. AgcInv => TypeOK
  BY DEF AgcInv
<1> QED BY <1>1, AgcCorrect, PTL

\* Locked gains are the gains in use, the phase says so, and no lock is taken
\* in the cooldown after an unlock, in any order of windows.
THEOREM LockAgreesAlways == Spec => []LockAgrees
<1>1. AgcInv => LockAgrees
  BY DEF AgcInv
<1> QED BY <1>1, AgcCorrect, PTL

\* From the first callback that finds something to send to the last of the HOLD
\* after it the gains change once at most, wherever in agc_tune or in the warm-up
\* main was when it began; and a call that keeps a lock moves none.
THEOREM GainsHeldAlways == Spec => GainsHeld
<1>1. AgcInv /\ [Next]_vars => [gain' # gain => ~moved /\ ~(locked /\ locked')]_vars
  <2> SUFFICES ASSUME AgcInv, Next, gain' # gain
               PROVE  ~moved /\ ~(locked /\ locked')
    BY DEF vars
  <2>1. LockAgrees /\ OneInHand /\ InCalibration
    BY DEF AgcInv
  <2>2. LowerGains \/ TuneCalibrate \/ TuneSteady
    BY DEF Next, Main, Tick, Callback, TuneBegins
  <2>3. main # "idle"
    BY <2>2 DEF LowerGains, TuneCalibrate, TuneSteady
  <2>4. ~moved
    BY <2>1, <2>3 DEF OneInHand
  <2>5. ~(locked /\ locked')
    <3>1. CASE LowerGains \/ TuneCalibrate
      BY <2>1, <3>1 DEF LowerGains, TuneCalibrate, InCalibration, LockAgrees
    <3>2. CASE TuneSteady
      BY <3>2 DEF TuneSteady, KeepLock, Lock, Adjust
    <3> QED BY <2>2, <3>1, <3>2
  <2> QED BY <2>4, <2>5
<1> QED BY <1>1, AgcCorrect, PTL DEF Spec, GainsHeld
=============================================================================
