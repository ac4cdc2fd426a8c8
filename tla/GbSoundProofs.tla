----------------------------- MODULE GbSoundProofs -----------------------------
(***************************************************************************)
(* The proofs about GbSound: no counter of a playing channel starts from 0,  *)
(* nothing plays without its converter, and the hardware is told of every    *)
(* change, for counters, volumes and frequencies of every width.            *)
(***************************************************************************)
EXTENDS GbSound, TLAPS

-----------------------------------------------------------------------------
(* The sweep.                                                               *)

\* A shift to the right makes a number no larger.
LEMMA Shifted ==
    ASSUME NEW n \in Nat, NEW shift \in Shifts
    PROVE  n \div Divisors[shift + 1] \in 0 .. n
<1>1. shift \in 0 .. 3 => n \div Divisors[shift + 1] \in 0 .. n
  BY DEF Divisors
<1>2. shift \in 4 .. 7 => n \div Divisors[shift + 1] \in 0 .. n
  BY DEF Divisors
<1> QED
  BY <1>1, <1>2 DEF Shifts

\* A frequency that is looked at and fits is a frequency.
LEMMA SweptTyped ==
    ASSUME NEW s \in Sweeps
    PROVE  /\ Fits(s) => Swept(s) \in 0 .. Limit - 1
           /\ Looked(s) \in Sweeps
           /\ Looked(s).step \in 1 .. NoTime
           /\ Looked(s).enabled = s.enabled
<1>1. s.freq \in Nat /\ s.freq < Limit /\ s.shift \in Shifts /\ s.time \in 1 .. NoTime
  BY GbConstants DEF Sweeps
<1>2. s.freq \div Divisors[s.shift + 1] \in 0 .. s.freq
  BY <1>1, Shifted
<1>3. Fits(s) => Swept(s) \in 0 .. Limit - 1
  BY <1>1, <1>2, GbConstants DEF Fits, Swept
<1>4. s.time \in Steps
  BY <1>1, GbConstants DEF Steps
<1> QED
  BY <1>1, <1>3, <1>4 DEF Looked, Sweeps

\* The sequencer's update leaves a step that is not 0 unless it stops the channel.
LEMMA UpdateTyped ==
    ASSUME NEW s \in Sweeps
    PROVE  /\ UpdateSweep(s).sweep \in Sweeps
           /\ UpdateSweep(s).fits => UpdateSweep(s).sweep.step \in 1 .. NoTime
<1> DEFINE moved == [s EXCEPT !.freq = Swept(s)]
<1>1. s.time \in 1 .. NoTime /\ s.time \in Steps
  BY GbConstants DEF Sweeps, Steps
<1>2. Fits(s) => moved \in Sweeps
  BY SweptTyped DEF Sweeps
<1>3. Looked(s) \in Sweeps /\ Looked(s).step \in 1 .. NoTime
  BY SweptTyped
<1>4. Fits(s) => Looked(moved) \in Sweeps /\ Looked(moved).step \in 1 .. NoTime
  BY <1>2, SweptTyped
<1>5. CASE s.time = NoTime
  <2>1. UpdateSweep(s).sweep = [s EXCEPT !.step = s.time]
    BY <1>5 DEF UpdateSweep
  <2>2. [s EXCEPT !.step = s.time] \in Sweeps /\ [s EXCEPT !.step = s.time].step = s.time
    BY <1>1 DEF Sweeps
  <2> QED
    BY <2>1, <2>2, <1>1
<1>6. CASE s.time # NoTime /\ s.down
  <2>1. UpdateSweep(s) = [sweep |-> Looked(moved), fits |-> TRUE]
    BY <1>6 DEF UpdateSweep
  <2> QED
    BY <2>1, <1>4, <1>6 DEF Fits
<1>7. CASE s.time # NoTime /\ ~s.down /\ ~Fits(s)
  BY <1>7 DEF UpdateSweep
<1>8. CASE s.time # NoTime /\ ~s.down /\ Fits(s) /\ s.shift = 0
  <2>1. UpdateSweep(s) = [sweep |-> Looked(s), fits |-> TRUE]
    BY <1>8 DEF UpdateSweep
  <2> QED
    BY <2>1, <1>3
<1>9. CASE s.time # NoTime /\ ~s.down /\ Fits(s) /\ s.shift # 0
  <2>1. UpdateSweep(s) = [sweep |-> IF Fits(moved) THEN Looked(moved) ELSE moved,
                          fits |-> Fits(moved)]
    BY <1>9 DEF UpdateSweep
  <2> QED
    BY <2>1, <1>2, <1>4, <1>9
<1> QED
  BY <1>5, <1>6, <1>7, <1>8, <1>9

\* A trigger's.
LEMMA ResetTyped ==
    ASSUME sweep \in Sweeps, NEW f \in 0 .. Limit - 1
    PROVE  ResetSweep(f) \in Sweeps /\ ResetSweep(f).step \in 1 .. NoTime
<1>1. sweep.time \in 1 .. NoTime /\ sweep.time \in Steps
  BY GbConstants DEF Sweeps, Steps
<1> QED
  BY <1>1 DEF ResetSweep, Sweeps

-----------------------------------------------------------------------------
(* The envelope.                                                            *)

\* It counts down from its period whenever it is alive.
LEMMA ResetEnvelopeStep ==
    ASSUME TypeOK, ResetEnvelope
    PROVE  /\ vol' \in Volumes /\ env' = env /\ dead' = Dead(env', vol')
           /\ dead' \in {"no", "steady", "silent"} /\ next' \in Steps
           /\ dead' = "no" => next' \in 1 .. env'.period
<1>1. env \in Envelopes /\ env.init \in Volumes /\ env.period \in 0 .. MaxPeriod /\ next \in Steps
  BY DEF TypeOK, Envelopes
<1>2. env.period \in Steps
  BY <1>1, GbConstants DEF Steps
<1>3. Dead(env, env.init) \in {"no", "steady", "silent"}
  BY DEF Dead
<1>4. Dead(env, env.init) = "no" => env.period # 0
  BY <1>1 DEF Dead
<1>5. env.period \in Nat
  BY <1>1, GbConstants
<1> QED
  BY <1>1, <1>2, <1>3, <1>4, <1>5 DEF ResetEnvelope

\* A step of a living envelope keeps it alive with a full period, or ends it.
LEMMA ClockEnvelopeStep ==
    ASSUME TypeOK, EnvelopeAgrees, kind # "wave", dead = "no" => next \in 1 .. env.period,
           ClockEnvelope
    PROVE  /\ vol' \in Volumes /\ env' = env /\ dead' = Dead(env', vol')
           /\ dead' \in {"no", "steady", "silent"} /\ next' \in Steps
           /\ dead' = "no" => next' \in 1 .. env'.period
<1> DEFINE step == (next + StepSize - 1) % StepSize
           v == IF env.up THEN vol + 1 ELSE vol - 1
<1>1. /\ env \in Envelopes /\ env.period \in 0 .. MaxPeriod /\ env.up \in BOOLEAN
      /\ next \in Steps /\ vol \in Volumes /\ dead \in {"no", "steady", "silent"}
  BY DEF TypeOK, Envelopes
<1>2. dead = Dead(env, vol)
  BY DEF EnvelopeAgrees
<1>3. /\ env.period \in Nat /\ env.period \in Steps /\ 0 \in Steps
      /\ vol \in Nat /\ vol <= MaxVolume /\ MaxVolume \in Nat
  BY <1>1, GbConstants DEF Steps, Volumes
<1>4. env' = env
  BY DEF ClockEnvelope
<1>5. CASE dead # "no"
  BY <1>1, <1>2, <1>4, <1>5 DEF ClockEnvelope
<1>6. CASE dead = "no" /\ step # 0
  <2>1. next' = step /\ vol' = vol /\ dead' = dead
    BY <1>6 DEF ClockEnvelope
  <2>2. next \in 1 .. env.period /\ next < StepSize /\ StepSize \in Nat
    BY <1>6, <1>1, GbConstants DEF Steps
  <2>3. step = next - 1
    BY <2>2, <1>3
  <2> QED
    BY <2>1, <2>2, <2>3, <1>1, <1>2, <1>3, <1>4, <1>6 DEF Steps
<1>7. CASE dead = "no" /\ step = 0
  <2>1. env.period # 0 /\ (~env.up => vol # 0) /\ (env.up => vol # MaxVolume)
    BY <1>2, <1>7 DEF Dead
  <2>2. CASE v >= MaxVolume
    <3>1. vol' = MaxVolume /\ dead' = "steady" /\ next' = 0
      BY <1>1, <1>3, <1>7, <2>2 DEF ClockEnvelope
    <3>2. env.up
      BY <1>1, <1>3, <2>1, <2>2
    <3>3. Dead(env, MaxVolume) = "steady"
      BY <2>1, <3>2 DEF Dead
    <3> QED
      BY <3>1, <3>3, <1>3, <1>4 DEF Volumes
  <2>3. CASE v < MaxVolume /\ v <= 0
    <3>1. vol' = 0 /\ dead' = "silent" /\ next' = 0
      BY <1>7, <1>1, <1>3, <2>3 DEF ClockEnvelope
    <3>2. ~env.up
      BY <1>1, <1>3, <2>1, <2>3
    <3>3. Dead(env, 0) = "silent"
      BY <2>1, <3>2 DEF Dead
    <3> QED
      BY <3>1, <3>3, <1>3, <1>4 DEF Volumes
  <2>4. CASE v < MaxVolume /\ ~(v <= 0)
    <3>1. vol' = v /\ next' = env.period /\ dead' = dead
      BY <1>7, <1>1, <1>3, <2>4 DEF ClockEnvelope
    <3>2. Dead(env, v) = "no"
      BY <1>3, <2>1, <2>4 DEF Dead
    <3> QED
      BY <3>1, <3>2, <1>1, <1>3, <1>4, <1>7, <2>1, <2>4 DEF Volumes
  <2> QED
    BY <2>2, <2>3, <2>4, <1>1, <1>3
<1> QED
  BY <1>5, <1>6, <1>7

-----------------------------------------------------------------------------
(* The invariant.                                                           *)

LEMMA InitInv == Init => IndInv
<1> SUFFICES ASSUME Init PROVE IndInv
  OBVIOUS
<1>1. TypeOK
  <2>1. kind \in Kinds /\ master \in BOOLEAN /\ useLen \in BOOLEAN
    BY DEF Init
  <2>8. seq \in 0 .. 7
    BY DEF Init
  <2>2. length \in 0 .. MaxLength[kind] /\ freq \in 0 .. Limit - 1
    BY <2>1, GbConstants DEF Init
  <2>3. vol \in Volumes /\ env \in Envelopes /\ dead \in {"no", "steady", "silent"}
    BY GbConstants DEF Init, Volumes, Envelopes
  <2>4. next \in Steps /\ wave \in Waves
    BY GbConstants DEF Init, Steps, Waves
  <2>5. sweep \in Sweeps
    BY GbConstants DEF Init, Sweeps, Shifts, Steps
  <2>6. mix \in Mixes /\ playing \in BOOLEAN /\ on \subseteq {0, 1} /\ timer = Unset
    BY GbConstants DEF Init
  <2>7. heard \in [pair: 0 .. 1, vol: Volumes, mix: Mixes]
    BY GbConstants DEF Init, Volumes
  <2> QED
    BY <2>1, <2>2, <2>3, <2>4, <2>5, <2>6, <2>7, <2>8 DEF TypeOK
<1>2. EnvelopeAgrees
  BY DEF Init, EnvelopeAgrees, Dead
<1> QED
  BY <1>1, <1>2 DEF Init, IndInv, NothingStalls, DacIsOn, RegistersAreSet, HardwareAgrees, TimerAgrees

LEMMA WriteSweepInv ==
    ASSUME IndInv, NEW v \in SweepWrites, WriteSweep(v) PROVE IndInv'
<1> USE DEF IndInv
<1>1. v.shift \in Shifts /\ v.time \in 1 .. NoTime /\ v.down \in BOOLEAN
  BY GbConstants
<1>2. sweep' \in Sweeps /\ sweep'.step = sweep.step /\ sweep'.enabled = sweep.enabled
  BY <1>1 DEF WriteSweep, TypeOK, Sweeps
<1>3. TypeOK'
  BY <1>2 DEF TypeOK, WriteSweep, StopChannel, LetPlay, lengthVars, envVars
<1>4. NothingStalls'
  BY <1>2 DEF NothingStalls, WriteSweep, StopChannel, LetPlay, lengthVars, envVars
<1>5. DacIsOn' /\ RegistersAreSet'
  BY DEF DacIsOn, RegistersAreSet, HasDac, Pair, WriteSweep, StopChannel, LetPlay, lengthVars, envVars
<1>6. HardwareAgrees' /\ EnvelopeAgrees' /\ TimerAgrees'
  BY DEF HardwareAgrees, EnvelopeAgrees, Dead, TimerAgrees, WriteSweep, StopChannel, LetPlay,
         lengthVars, envVars
<1> QED
  BY <1>3, <1>4, <1>5, <1>6

LEMMA WriteLengthInv ==
    ASSUME IndInv, NEW n \in 0 .. MaxLength[kind] - 1, WriteLength(n) PROVE IndInv'
<1> USE DEF IndInv
<1>1. MaxLength[kind] \in Nat
  BY GbConstants DEF TypeOK
<1>2. length' \in 0 .. MaxLength[kind] /\ length' # 0
  BY <1>1 DEF WriteLength
<1>3. TypeOK'
  BY <1>2 DEF TypeOK, WriteLength, envVars, hwVars
<1>4. NothingStalls'
  BY <1>2 DEF NothingStalls, WriteLength, envVars, hwVars
<1>5. DacIsOn' /\ RegistersAreSet'
  BY DEF DacIsOn, RegistersAreSet, HasDac, Pair, WriteLength, envVars, hwVars
<1>6. HardwareAgrees' /\ EnvelopeAgrees' /\ TimerAgrees'
  BY DEF HardwareAgrees, EnvelopeAgrees, Dead, TimerAgrees, WriteLength, envVars, hwVars
<1> QED
  BY <1>3, <1>4, <1>5, <1>6

LEMMA HeardTyped ==
    ASSUME UpdateVolume, vol' \in Volumes, mix' \in Mixes
    PROVE  heard' \in [pair: 0 .. 1, vol: Volumes, mix: Mixes]
BY DEF UpdateVolume, Pair

LEMMA WriteEnvelopeInv ==
    ASSUME IndInv, NEW e \in EnvelopeWrites[kind], WriteEnvelope(e) PROVE IndInv'
<1> USE DEF IndInv
<1>1. e \in Envelopes
  BY GbConstants DEF TypeOK
<1>2. e.period \in 0 .. MaxPeriod /\ e.period \in Steps /\ e.period \in Nat
  BY <1>1, GbConstants DEF Envelopes, Steps
<1>3. Dead(e, vol) \in {"no", "steady", "silent"} /\ (Dead(e, vol) = "no" => e.period # 0)
  BY <1>2 DEF Dead
<1>4. /\ env' = e /\ vol' = vol /\ dead' = Dead(e, vol) /\ kind' = kind
      /\ next' = IF dead' = "no" THEN e.period ELSE next
  BY DEF WriteEnvelope
<1>5. TypeOK'
  <2>1. heard' \in [pair: 0 .. 1, vol: Volumes, mix: Mixes]
    BY HeardTyped DEF WriteEnvelope, TypeOK
  <2>2. next' \in Steps
    BY <1>2, <1>4 DEF TypeOK
  <2> QED
    BY <1>1, <1>3, <1>4, <2>1, <2>2 DEF TypeOK, WriteEnvelope, StopChannel, LetPlay, lengthVars
<1>6. NothingStalls'
  <2>1. dead' = "no" => next' \in 1 .. env'.period
    BY <1>2, <1>3, <1>4
  <2>2. playing' => playing
    BY DEF WriteEnvelope, StopChannel, LetPlay
  <2>3. length' = length /\ sweep' = sweep
    BY DEF WriteEnvelope, lengthVars
  <2> QED
    BY <1>4, <2>1, <2>2, <2>3 DEF NothingStalls
<1>7. DacIsOn'
  BY DEF DacIsOn, HasDac, WriteEnvelope, StopChannel, LetPlay
<1>8. RegistersAreSet'
  BY DEF RegistersAreSet, UpdateVolume, Pair, WriteEnvelope, StopChannel, LetPlay
<1>9. HardwareAgrees' /\ EnvelopeAgrees' /\ TimerAgrees'
  BY DEF HardwareAgrees, EnvelopeAgrees, Dead, TimerAgrees, WriteEnvelope, StopChannel, LetPlay
<1> QED
  BY <1>5, <1>6, <1>7, <1>8, <1>9

LEMMA WriteVolumeInv ==
    ASSUME IndInv, NEW v \in Volumes, WriteVolume(v) PROVE IndInv'
<1> USE DEF IndInv
<1>1. heard' \in [pair: 0 .. 1, vol: Volumes, mix: Mixes]
  BY HeardTyped DEF WriteVolume, TypeOK
<1>2. TypeOK'
  BY <1>1 DEF TypeOK, WriteVolume, lengthVars
<1>3. NothingStalls' /\ DacIsOn'
  BY DEF NothingStalls, DacIsOn, HasDac, WriteVolume, lengthVars
<1>4. RegistersAreSet'
  BY DEF RegistersAreSet, UpdateVolume, Pair, WriteVolume
<1>5. HardwareAgrees' /\ EnvelopeAgrees' /\ TimerAgrees'
  BY DEF HardwareAgrees, EnvelopeAgrees, TimerAgrees, WriteVolume
<1> QED
  BY <1>2, <1>3, <1>4, <1>5

LEMMA SelectWaveInv ==
    ASSUME IndInv, NEW w \in Waves, SelectWave(w) PROVE IndInv'
<1> USE DEF IndInv
<1>1. heard' \in [pair: 0 .. 1, vol: Volumes, mix: Mixes]
  BY HeardTyped DEF SelectWave, TypeOK
<1>2. TypeOK'
  BY <1>1 DEF TypeOK, SelectWave, StopChannel, LetPlay, lengthVars
<1>3. NothingStalls' /\ DacIsOn'
  BY DEF NothingStalls, DacIsOn, SelectWave, StopChannel, LetPlay, lengthVars
<1>4. RegistersAreSet'
  BY DEF RegistersAreSet, UpdateVolume, Pair, SelectWave, StopChannel, LetPlay
<1>5. HardwareAgrees' /\ EnvelopeAgrees' /\ TimerAgrees'
  BY DEF HardwareAgrees, EnvelopeAgrees, TimerAgrees, SelectWave, StopChannel, LetPlay
<1> QED
  BY <1>2, <1>3, <1>4, <1>5

\* A write to a frequency goes to the timer as well.
LEMMA NewFrequencyStep ==
    ASSUME IndInv, NEW f \in Frequencies, NewFrequency(f)
    PROVE  /\ freq' \in 0 .. Limit - 1 /\ timer' \in 0 .. Limit - 1 \union {Unset}
           /\ timer' # Unset => timer' = freq'
           /\ kind # "noise" => timer' = freq'
BY GbConstants DEF IndInv, TypeOK, TimerAgrees, NewFrequency, SetFrequency

LEMMA WriteFrequencyInv ==
    ASSUME IndInv, NEW f \in Frequencies, WriteFrequency(f) PROVE IndInv'
<1> USE DEF IndInv
<1>1. freq' \in 0 .. Limit - 1 /\ timer' = freq'
  BY GbConstants DEF WriteFrequency, SetFrequency
<1>2. TypeOK'
  BY <1>1 DEF TypeOK, WriteFrequency, lengthVars, envVars
<1>3. NothingStalls' /\ DacIsOn'
  BY DEF NothingStalls, DacIsOn, HasDac, WriteFrequency, lengthVars, envVars
<1>4. RegistersAreSet'
  BY <1>1, GbConstants DEF RegistersAreSet, Pair, WriteFrequency, envVars
<1>5. HardwareAgrees' /\ EnvelopeAgrees' /\ TimerAgrees'
  BY <1>1 DEF HardwareAgrees, EnvelopeAgrees, Dead, TimerAgrees, WriteFrequency, envVars
<1> QED
  BY <1>2, <1>3, <1>4, <1>5

LEMMA WriteControlInv ==
    ASSUME IndInv, NEW f \in Frequencies, NEW use \in BOOLEAN, WriteControl(f, use) PROVE IndInv'
<1> USE DEF IndInv
<1>1. /\ freq' \in 0 .. Limit - 1 /\ timer' \in 0 .. Limit - 1 \union {Unset}
      /\ timer' # Unset => timer' = freq'
      /\ kind # "noise" => timer' = freq'
  BY NewFrequencyStep DEF WriteControl
<1>2. TypeOK'
  BY <1>1 DEF TypeOK, WriteControl, envVars
<1>3. NothingStalls' /\ DacIsOn'
  BY DEF NothingStalls, DacIsOn, HasDac, WriteControl, envVars
<1>4. RegistersAreSet'
  BY <1>1 DEF RegistersAreSet, Pair, WriteControl, envVars
<1>5. HardwareAgrees' /\ EnvelopeAgrees' /\ TimerAgrees'
  BY <1>1 DEF HardwareAgrees, EnvelopeAgrees, Dead, TimerAgrees, WriteControl, envVars
<1> QED
  BY <1>2, <1>3, <1>4, <1>5

\* A trigger's length is not 0.
LEMMA ReloadLengthStep ==
    ASSUME TypeOK, ReloadLength
    PROVE  length' \in 0 .. MaxLength[kind] /\ length' # 0
<1>1. MaxLength[kind] \in Nat /\ MaxLength[kind] # 0 /\ length \in 0 .. MaxLength[kind]
  BY GbConstants DEF TypeOK
<1> QED
  BY <1>1 DEF ReloadLength

LEMMA TriggerSweepInv ==
    ASSUME IndInv, NEW f \in Frequencies, NEW use \in BOOLEAN, TriggerSweep(f, use) PROVE IndInv'
<1> USE DEF IndInv
<1> DEFINE reset == ResetSweep(f)
           plays == HasDac(env) /\ (reset.shift # 0 => Fits(reset))
<1>1. length' \in 0 .. MaxLength[kind] /\ length' # 0
  BY ReloadLengthStep DEF TriggerSweep
<1>2. /\ vol' \in Volumes /\ env' = env /\ dead' = Dead(env', vol')
      /\ dead' \in {"no", "steady", "silent"} /\ next' \in Steps
      /\ dead' = "no" => next' \in 1 .. env'.period
  BY ResetEnvelopeStep DEF TriggerSweep
<1>3. freq' \in 0 .. Limit - 1 /\ timer' = freq'
  BY GbConstants DEF TriggerSweep, SetFrequency
<1>4. sweep' \in Sweeps /\ sweep'.step \in 1 .. NoTime
  <2>1. f \in 0 .. Limit - 1 /\ sweep \in Sweeps
    BY GbConstants DEF TypeOK
  <2>2. reset \in Sweeps /\ reset.step \in 1 .. NoTime
    BY <2>1, ResetTyped
  <2>3. Looked(reset) \in Sweeps /\ Looked(reset).step \in 1 .. NoTime
    BY <2>2, SweptTyped
  <2>4. sweep' = Looked(reset) \/ sweep' = reset
    BY DEF TriggerSweep
  <2> QED
    BY <2>2, <2>3, <2>4
<1>5. /\ kind' = kind /\ kind = "sweep" /\ master' = master /\ seq' = seq /\ mix' = mix
      /\ wave' = wave /\ useLen' = use
  BY DEF TriggerSweep
<1>6. \/ plays /\ playing' = TRUE /\ on' = {0} /\ UpdateVolume
      \/ ~plays /\ playing' = FALSE /\ on' = {} /\ heard' = heard
  BY <1>5 DEF TriggerSweep, StartChannel, StopChannel
<1>7. TypeOK'
  <2>1. heard' \in [pair: 0 .. 1, vol: Volumes, mix: Mixes]
    BY <1>2, <1>5, <1>6, HeardTyped DEF TypeOK
  <2> QED
    BY <1>1, <1>2, <1>3, <1>4, <1>5, <1>6, <2>1 DEF TypeOK
<1>8. NothingStalls'
  BY <1>1, <1>2, <1>4 DEF NothingStalls
<1>9. DacIsOn'
  BY <1>2, <1>5, <1>6 DEF DacIsOn, HasDac
<1>10. RegistersAreSet'
  BY <1>3, <1>5, <1>6 DEF RegistersAreSet, UpdateVolume, Pair
<1>11. HardwareAgrees' /\ EnvelopeAgrees' /\ TimerAgrees'
  BY <1>2, <1>3, <1>6 DEF HardwareAgrees, EnvelopeAgrees, Dead, TimerAgrees
<1> QED
  BY <1>7, <1>8, <1>9, <1>10, <1>11

LEMMA TriggerToneInv ==
    ASSUME IndInv, NEW f \in Frequencies, NEW use \in BOOLEAN, TriggerTone(f, use) PROVE IndInv'
<1> USE DEF IndInv
<1>1. length' \in 0 .. MaxLength[kind] /\ length' # 0
  BY ReloadLengthStep DEF TriggerTone
<1>2. /\ vol' \in Volumes /\ env' = env /\ dead' = Dead(env', vol')
      /\ dead' \in {"no", "steady", "silent"} /\ next' \in Steps
      /\ dead' = "no" => next' \in 1 .. env'.period
  BY ResetEnvelopeStep DEF TriggerTone
<1>3. /\ freq' \in 0 .. Limit - 1 /\ timer' \in 0 .. Limit - 1 \union {Unset}
      /\ timer' # Unset => timer' = freq'
      /\ kind # "noise" => timer' = freq'
  BY NewFrequencyStep DEF TriggerTone
<1>4. /\ kind' = kind /\ kind \in {"square", "noise"} /\ master' = master /\ seq' = seq
      /\ mix' = mix /\ wave' = wave /\ sweep' = sweep /\ useLen' = use
  BY DEF TriggerTone
<1>5. \/ HasDac(env) /\ playing' = TRUE /\ on' = {0} /\ UpdateVolume
      \/ ~HasDac(env) /\ playing' = FALSE /\ on' = {} /\ heard' = heard
  BY <1>4 DEF TriggerTone, StartChannel, StopChannel
<1>6. TypeOK'
  <2>1. heard' \in [pair: 0 .. 1, vol: Volumes, mix: Mixes]
    BY <1>2, <1>4, <1>5, HeardTyped DEF TypeOK
  <2> QED
    BY <1>1, <1>2, <1>3, <1>4, <1>5, <2>1 DEF TypeOK
<1>7. NothingStalls'
  BY <1>1, <1>2, <1>4 DEF NothingStalls
<1>8. DacIsOn'
  BY <1>2, <1>4, <1>5 DEF DacIsOn, HasDac
<1>9. RegistersAreSet'
  BY <1>3, <1>4, <1>5 DEF RegistersAreSet, UpdateVolume, Pair
<1>10. HardwareAgrees' /\ EnvelopeAgrees' /\ TimerAgrees'
  BY <1>2, <1>3, <1>5 DEF HardwareAgrees, EnvelopeAgrees, Dead, TimerAgrees
<1> QED
  BY <1>6, <1>7, <1>8, <1>9, <1>10

LEMMA TriggerWaveInv ==
    ASSUME IndInv, NEW f \in Frequencies, NEW use \in BOOLEAN, TriggerWave(f, use) PROVE IndInv'
<1> USE DEF IndInv
<1>1. length' \in 0 .. MaxLength[kind] /\ length' # 0
  BY ReloadLengthStep DEF TriggerWave
<1>2. freq' \in 0 .. Limit - 1 /\ timer' = freq'
  BY GbConstants DEF TriggerWave, SetFrequency
<1>3. /\ kind' = kind /\ kind = "wave" /\ master' = master /\ seq' = seq
      /\ mix' = mix /\ wave' = wave /\ sweep' = sweep /\ useLen' = use
      /\ vol' = vol /\ env' = env /\ dead' = dead /\ next' = next
  BY DEF TriggerWave
<1>4. \/ wave.on /\ playing' = TRUE /\ on' \in {{0}, {0, 1}} /\ UpdateVolume
      \/ ~wave.on /\ playing' = playing /\ on' = on /\ heard' = heard
  BY DEF TriggerWave, StartChannel, LetPlay
<1>5. TypeOK'
  <2>1. heard' \in [pair: 0 .. 1, vol: Volumes, mix: Mixes]
    BY <1>3, <1>4, HeardTyped DEF TypeOK
  <2> QED
    BY <1>1, <1>2, <1>3, <1>4, <2>1 DEF TypeOK
<1>6. NothingStalls' /\ DacIsOn'
  BY <1>1, <1>3, <1>4 DEF NothingStalls, DacIsOn
<1>7. RegistersAreSet'
  BY <1>2, <1>3, <1>4 DEF RegistersAreSet, UpdateVolume, Pair
<1>8. HardwareAgrees' /\ EnvelopeAgrees' /\ TimerAgrees'
  BY <1>2, <1>3, <1>4 DEF HardwareAgrees, EnvelopeAgrees, TimerAgrees
<1> QED
  BY <1>5, <1>6, <1>7, <1>8

LEMMA WriteMixInv ==
    ASSUME IndInv, NEW m \in Mixes, WriteMix(m) PROVE IndInv'
<1> USE DEF IndInv
<1>1. heard' \in [pair: 0 .. 1, vol: Volumes, mix: Mixes]
  BY HeardTyped DEF WriteMix, TypeOK
<1>2. TypeOK'
  BY <1>1 DEF TypeOK, WriteMix, lengthVars
<1>3. NothingStalls' /\ DacIsOn'
  BY DEF NothingStalls, DacIsOn, HasDac, WriteMix, lengthVars
<1>4. RegistersAreSet'
  BY DEF RegistersAreSet, UpdateVolume, Pair, WriteMix
<1>5. HardwareAgrees' /\ EnvelopeAgrees' /\ TimerAgrees'
  BY DEF HardwareAgrees, EnvelopeAgrees, Dead, TimerAgrees, WriteMix
<1> QED
  BY <1>2, <1>3, <1>4, <1>5

LEMMA WriteMasterInv ==
    ASSUME IndInv, NEW enable \in BOOLEAN, WriteMaster(enable) PROVE IndInv'
<1> USE DEF IndInv, WriteMaster, StopChannel, LetPlay, lengthVars, envVars
<1>1. TypeOK'
  BY DEF TypeOK
<1>2. NothingStalls' /\ DacIsOn'
  BY DEF NothingStalls, DacIsOn, HasDac
<1>3. RegistersAreSet'
  BY DEF RegistersAreSet, Pair
<1>4. HardwareAgrees' /\ EnvelopeAgrees' /\ TimerAgrees'
  BY DEF HardwareAgrees, EnvelopeAgrees, Dead, TimerAgrees
<1> QED
  BY <1>1, <1>2, <1>3, <1>4

-----------------------------------------------------------------------------
(* The sequencer.                                                           *)

\* The sweep is left with a step that is not 0 if the channel goes on.
LEMMA ClockSweepStep ==
    ASSUME IndInv, ClockSweep
    PROVE  /\ sweep' \in Sweeps
           /\ playing /\ kind = "sweep" /\ sweep'.enabled /\ (SweepDue => UpdateSweep(Stepped).fits)
                => sweep'.step \in 1 .. NoTime
           /\ freq' \in 0 .. Limit - 1 /\ timer' \in 0 .. Limit - 1 \union {Unset}
           /\ timer' # Unset => timer' = freq'
           /\ timer = freq => timer' = freq'
           /\ kind # "sweep" => freq' = freq /\ timer' = timer
<1> USE DEF IndInv
<1>1. sweep \in Sweeps /\ sweep.step \in Steps /\ StepSize \in Nat /\ StepSize # 0 /\ NoTime < StepSize
  BY GbConstants DEF TypeOK, Sweeps
<1>2. (sweep.step + StepSize - 1) % StepSize \in Steps
  BY <1>1 DEF Steps
<1>3. /\ Stepped \in Sweeps /\ Stepped.enabled = sweep.enabled
      /\ Stepped.step = (sweep.step + StepSize - 1) % StepSize
  BY <1>1, <1>2 DEF Stepped, Sweeps
<1>4. /\ UpdateSweep(Stepped).sweep \in Sweeps
      /\ UpdateSweep(Stepped).fits => UpdateSweep(Stepped).sweep.step \in 1 .. NoTime
  BY <1>3, UpdateTyped
<1>5. sweep' \in Sweeps
  BY <1>1, <1>3, <1>4 DEF ClockSweep
<1>6. ASSUME playing, kind = "sweep", sweep'.enabled, SweepDue => UpdateSweep(Stepped).fits
      PROVE  sweep'.step \in 1 .. NoTime
  <2>1. CASE SweepDue
    BY <1>4, <1>6, <2>1 DEF ClockSweep
  <2>2. CASE SweepClocked /\ ~SweepDue
    <3>1. sweep' = Stepped /\ Stepped.step # 0 /\ sweep.enabled
      BY <2>2 DEF ClockSweep, SweepDue, SweepClocked
    <3>2. sweep.step \in 1 .. NoTime /\ NoTime \in Nat
      BY <1>6, <3>1, GbConstants DEF NothingStalls
    <3>3. Stepped.step = sweep.step - 1
      BY <1>1, <1>3, <3>2 DEF Steps
    <3> QED
      BY <3>1, <3>2, <3>3
  <2>3. CASE ~SweepClocked
    <3>1. sweep' = sweep
      BY <2>3 DEF ClockSweep, SweepDue
    <3> QED
      BY <1>6, <3>1 DEF NothingStalls
  <2> QED
    BY <2>1, <2>2, <2>3
<1>7. freq' \in 0 .. Limit - 1
  BY <1>5 DEF ClockSweep, TypeOK, Sweeps
<1>8. /\ timer' \in 0 .. Limit - 1 \union {Unset}
      /\ timer' # Unset => timer' = freq'
      /\ timer = freq => timer' = freq'
  BY <1>7 DEF ClockSweep, TypeOK, TimerAgrees
<1>9. kind # "sweep" => freq' = freq /\ timer' = timer
  BY DEF ClockSweep, SweepDue, SweepClocked
<1> QED
  BY <1>5, <1>6, <1>7, <1>8, <1>9

\* The envelope is left alive with a step that is not 0, and the hardware told.
LEMMA ClockVolumeStep ==
    ASSUME IndInv, ClockVolume, wave' = wave, mix' = mix
    PROVE  /\ vol' \in Volumes /\ env' = env
           /\ dead' \in {"no", "steady", "silent"} /\ next' \in Steps
           /\ heard' \in [pair: 0 .. 1, vol: Volumes, mix: Mixes]
           /\ kind # "wave" => dead' = Dead(env', vol')
           /\ playing /\ kind # "wave" /\ dead' = "no" => next' \in 1 .. env'.period
           /\ playing => heard' = [pair |-> Pair(wave), vol |-> vol', mix |-> mix]
<1> USE DEF IndInv
<1>1. CASE seq = 7 /\ playing /\ kind # "wave"
  <2>1. ClockEnvelope /\ UpdateVolume
    BY <1>1 DEF ClockVolume
  <2>2. /\ vol' \in Volumes /\ env' = env /\ dead' = Dead(env', vol')
        /\ dead' \in {"no", "steady", "silent"} /\ next' \in Steps
        /\ dead' = "no" => next' \in 1 .. env'.period
    BY <1>1, <2>1, ClockEnvelopeStep DEF NothingStalls
  <2>3. heard' \in [pair: 0 .. 1, vol: Volumes, mix: Mixes]
    BY <2>1, <2>2, HeardTyped DEF TypeOK
  <2> QED
    BY <2>1, <2>2, <2>3 DEF UpdateVolume
<1>2. CASE ~(seq = 7 /\ playing /\ kind # "wave")
  <2>1. UNCHANGED <<vol, env, dead, next, heard>>
    BY <1>2 DEF ClockVolume, envVars
  <2> QED
    BY <2>1 DEF TypeOK, EnvelopeAgrees, NothingStalls, RegistersAreSet
<1> QED
  BY <1>1, <1>2

LEMMA ClockInv == ASSUME IndInv, Clock PROVE IndInv'
<1> USE DEF IndInv
<1>1. /\ kind' = kind /\ master' = master /\ useLen' = useLen /\ mix' = mix /\ wave' = wave
      /\ ClockSweep /\ ClockVolume
  BY DEF Clock
<1>2. /\ vol' \in Volumes /\ env' = env
      /\ dead' \in {"no", "steady", "silent"} /\ next' \in Steps
      /\ heard' \in [pair: 0 .. 1, vol: Volumes, mix: Mixes]
      /\ kind # "wave" => dead' = Dead(env', vol')
      /\ playing /\ kind # "wave" /\ dead' = "no" => next' \in 1 .. env'.period
      /\ playing => heard' = [pair |-> Pair(wave), vol |-> vol', mix |-> mix]
  BY <1>1, ClockVolumeStep
<1>3. /\ sweep' \in Sweeps
      /\ playing /\ kind = "sweep" /\ sweep'.enabled /\ (SweepDue => UpdateSweep(Stepped).fits)
           => sweep'.step \in 1 .. NoTime
      /\ freq' \in 0 .. Limit - 1 /\ timer' \in 0 .. Limit - 1 \union {Unset}
      /\ timer' # Unset => timer' = freq'
      /\ timer = freq => timer' = freq'
      /\ kind # "sweep" => freq' = freq /\ timer' = timer
  BY <1>1, ClockSweepStep
<1>4. \/ playing' = FALSE /\ on' = {}
      \/ /\ playing' = playing /\ on' = on /\ ~LengthEnds
         /\ SweepDue => UpdateSweep(Stepped).fits
  BY DEF Clock, StopChannel, LetPlay
<1>5. length' \in 0 .. MaxLength[kind] /\ (length # 0 /\ ~LengthEnds => length' # 0)
  <2>1. MaxLength[kind] \in Nat /\ length \in 0 .. MaxLength[kind]
    BY GbConstants DEF TypeOK
  <2> QED
    BY <2>1 DEF Clock, LengthClocked, LengthEnds
<1>6. TypeOK'
  <2>1. seq' \in 0 .. 7
    BY DEF Clock, TypeOK
  <2>2. playing' \in BOOLEAN /\ on' \subseteq {0, 1}
    BY <1>4 DEF TypeOK
  <2> QED
    BY <1>1, <1>2, <1>3, <1>5, <2>1, <2>2 DEF TypeOK
<1>7. NothingStalls'
  BY <1>1, <1>2, <1>3, <1>4, <1>5 DEF NothingStalls
<1>8. DacIsOn'
  BY <1>1, <1>2, <1>4 DEF DacIsOn, HasDac
<1>9. RegistersAreSet'
  BY <1>1, <1>2, <1>3, <1>4 DEF RegistersAreSet, Pair
<1>10. HardwareAgrees' /\ EnvelopeAgrees' /\ TimerAgrees'
  BY <1>1, <1>2, <1>3, <1>4 DEF HardwareAgrees, EnvelopeAgrees, Dead, TimerAgrees
<1> QED
  BY <1>6, <1>7, <1>8, <1>9, <1>10

LEMMA Stutter == ASSUME IndInv, UNCHANGED vars PROVE IndInv'
BY DEF IndInv, TypeOK, NothingStalls, DacIsOn, HasDac, RegistersAreSet, Pair, HardwareAgrees,
       EnvelopeAgrees, Dead, TimerAgrees, vars, lengthVars, envVars, hwVars

\* A write of the guest.
LEMMA WriteInv == ASSUME IndInv, Write PROVE IndInv'
BY WriteSweepInv, WriteLengthInv, WriteEnvelopeInv, WriteVolumeInv, SelectWaveInv,
   WriteFrequencyInv, WriteControlInv, TriggerSweepInv, TriggerToneInv, TriggerWaveInv,
   WriteMixInv, WriteMasterInv DEF Write

-----------------------------------------------------------------------------
(* The theorems.                                                            *)

\* In every state the types, the counters, the converter, the volume and timer registers
\* of the hardware and the state of the envelope agree.
THEOREM IndInvHolds == Spec => []IndInv
<1>1. IndInv /\ [Next]_vars => IndInv'
  BY ClockInv, WriteInv, Stutter DEF Next
<1> QED
  BY <1>1, InitInv, PTL DEF Spec

\* No counter of a playing channel starts from 0 (GbSound.c:555, 635, GbEnvelope.c:40).
THEOREM Counting == Spec => []NothingStalls
BY IndInvHolds, PTL DEF IndInv

\* A channel without its converter does not play.
THEOREM Converting == Spec => []DacIsOn
BY IndInvHolds, PTL DEF IndInv

\* The hardware's volumes and timers are what the registers say.
THEOREM RegistersFollow == Spec => []RegistersAreSet
BY IndInvHolds, PTL DEF IndInv

-----------------------------------------------------------------------------
(* How long a note lasts.                                                   *)

\* The sequencer's ticks until a limited note ends by itself: the length is clocked
\* on every other tick (GbSound.c:661), so that a length of n sounds for 2n - 1 or 2n.
TicksLeft == 2 * length - (IF seq % 2 = 0 THEN 1 ELSE 0)

\* The sweep finds the next frequency too high.
SweepEnds == SweepDue /\ ~UpdateSweep(Stepped).fits

\* Every tick takes one away from a limited note that plays, and it ends on
\* its last one or because of the sweep: the step of the sequence it began at makes no
\* other difference (GbSound.c:549).
NotesKeepTime ==
    [][Clock /\ playing /\ useLen =>
          IF playing' THEN TicksLeft' = TicksLeft - 1 ELSE TicksLeft = 1 \/ SweepEnds]_vars

\* A write to the length register, NRx1.
LengthWritten == \E n \in 0 .. MaxLength[kind] - 1 : WriteLength(n)

\* No other write touches the count of a note that plays: a trigger reloads only a
\* length that has run out (GbSound.c:792), the rest leave it alone.
OnlyLengthsCount == [][Write /\ playing /\ ~LengthWritten => TicksLeft' = TicksLeft]_vars

\* A limited note that plays has a tick left.
TicksAreLeft == playing /\ useLen => TicksLeft \in Nat \ {0}

LEMMA TicksLeftTyped == ASSUME IndInv PROVE TicksAreLeft
<1> SUFFICES ASSUME playing PROVE TicksLeft \in Nat \ {0}
  BY DEF TicksAreLeft
<1>1. length \in Nat \ {0}
  BY GbConstants DEF IndInv, TypeOK, NothingStalls
<1> QED
  BY <1>1 DEF TicksLeft

LEMMA ClockKeepsTime ==
    ASSUME IndInv, Clock, playing, useLen
    PROVE  IF playing' THEN TicksLeft' = TicksLeft - 1 ELSE TicksLeft = 1 \/ SweepEnds
<1>1. length \in Nat \ {0} /\ seq \in 0 .. 7
  BY GbConstants DEF IndInv, TypeOK, NothingStalls
<1>2. /\ seq' = (seq + 1) % 8
      /\ length' = IF LengthClocked THEN length - 1 ELSE length
      /\ IF LengthEnds \/ SweepEnds THEN StopChannel ELSE LetPlay
  BY DEF Clock, SweepEnds
<1>3. LengthClocked <=> seq % 2 = 0
  BY <1>1 DEF LengthClocked
<1>4. seq' % 2 = 0 <=> seq % 2 # 0
  BY <1>1, <1>2
<1>5. TicksLeft' = TicksLeft - 1
  BY <1>1, <1>2, <1>3, <1>4 DEF TicksLeft
<1>6. LengthEnds => TicksLeft = 1
  BY <1>1, <1>3 DEF LengthEnds, TicksLeft
<1>7. CASE LengthEnds \/ SweepEnds
  <2>1. ~playing'
    BY <1>2, <1>7 DEF StopChannel
  <2> QED
    BY <2>1, <1>6, <1>7
<1>8. CASE ~(LengthEnds \/ SweepEnds)
  <2>1. playing'
    BY <1>2, <1>8 DEF LetPlay
  <2> QED
    BY <2>1, <1>5
<1> QED
  BY <1>7, <1>8

LEMMA WritesKeepTime ==
    ASSUME IndInv, Write, playing, ~LengthWritten
    PROVE  TicksLeft' = TicksLeft
<1>1. length # 0
  BY DEF IndInv, NothingStalls
<1> SUFFICES length' = length /\ seq' = seq
  BY DEF TicksLeft
<1>2. ASSUME NEW v \in SweepWrites, WriteSweep(v) PROVE length' = length /\ seq' = seq
  BY <1>2 DEF WriteSweep, lengthVars
<1>3. ASSUME NEW e \in EnvelopeWrites[kind], WriteEnvelope(e)
      PROVE  length' = length /\ seq' = seq
  BY <1>3 DEF WriteEnvelope, lengthVars
<1>4. ASSUME NEW v \in Volumes, WriteVolume(v) PROVE length' = length /\ seq' = seq
  BY <1>4 DEF WriteVolume, lengthVars
<1>5. ASSUME NEW w \in Waves, SelectWave(w) PROVE length' = length /\ seq' = seq
  BY <1>5 DEF SelectWave, lengthVars
<1>6. ASSUME NEW f \in Frequencies, WriteFrequency(f) PROVE length' = length /\ seq' = seq
  BY <1>6 DEF WriteFrequency, lengthVars
<1>7. ASSUME NEW f \in Frequencies, NEW use \in BOOLEAN,
             WriteControl(f, use) \/ TriggerSweep(f, use)
             \/ TriggerTone(f, use) \/ TriggerWave(f, use)
      PROVE  length' = length /\ seq' = seq
  <2>1. CASE WriteControl(f, use)
    BY <2>1 DEF WriteControl
  <2>2. CASE TriggerSweep(f, use)
    BY <2>2, <1>1 DEF TriggerSweep, ReloadLength
  <2>3. CASE TriggerTone(f, use)
    BY <2>3, <1>1 DEF TriggerTone, ReloadLength
  <2>4. CASE TriggerWave(f, use)
    BY <2>4, <1>1 DEF TriggerWave, ReloadLength
  <2> QED
    BY <1>7, <2>1, <2>2, <2>3, <2>4
<1>8. ASSUME NEW m \in Mixes, WriteMix(m) PROVE length' = length /\ seq' = seq
  BY <1>8 DEF WriteMix, lengthVars
<1>9. ASSUME NEW enable \in BOOLEAN, WriteMaster(enable) PROVE length' = length /\ seq' = seq
  BY <1>9 DEF WriteMaster, lengthVars
<1> QED
  BY <1>2, <1>3, <1>4, <1>5, <1>6, <1>7, <1>8, <1>9 DEF Write, LengthWritten

\* A note of limited length lasts as many ticks as its length says: nothing else writes
\* to the count, and what is left of its end is that the ticks come.
THEOREM NotesLast == Spec => []TicksAreLeft /\ NotesKeepTime /\ OnlyLengthsCount
<1>1. IndInv => TicksAreLeft
  BY TicksLeftTyped
<1>2. IndInv => [Clock /\ playing /\ useLen =>
          IF playing' THEN TicksLeft' = TicksLeft - 1 ELSE TicksLeft = 1 \/ SweepEnds]_vars
  BY ClockKeepsTime
<1>3. IndInv => [Write /\ playing /\ ~LengthWritten => TicksLeft' = TicksLeft]_vars
  BY WritesKeepTime
<1> QED
  BY <1>1, <1>2, <1>3, IndInvHolds, PTL DEF NotesKeepTime, OnlyLengthsCount

-----------------------------------------------------------------------------
(* Whether the volume is heard.                                             *)

\* The pair that has the volume is enabled.
Audible == playing /\ Pair(wave) \in on

Trigger == \E f \in Frequencies, use \in BOOLEAN :
               TriggerSweep(f, use) \/ TriggerTone(f, use) \/ TriggerWave(f, use)

\* A note begins with a trigger, and one that plays after a trigger is heard.  It is
\* heard as long as it plays, whatever else is written and clocked, unless NR30 selects
\* 32 samples of bank 1 for a note that started in the mode of 64 samples: only then is
\* the volume of a playing note given to a pair that is off (GbSound.c:310, 391).
HeardStep ==
    /\ ~playing /\ playing' => Trigger
    /\ Trigger /\ playing' => Audible'
    /\ Audible /\ playing' /\ ~Audible' =>
          /\ on = {0}
          /\ \E w \in Waves : SelectWave(w) /\ ~w.mode64 /\ w.bank = 1

HeardUnlessReselected == [][HeardStep]_vars

\* A note has the first pair, in whichever mode it started.
FirstPairPlays == playing => 0 \in on

LEMMA TriggerIsHeard ==
    ASSUME IndInv, Trigger
    PROVE  playing' => Audible' /\ 0 \in on'
<1>1. ASSUME StartChannel, kind' = kind PROVE Audible' /\ 0 \in on'
  BY <1>1 DEF StartChannel, Audible, Pair
<1>2. PICK f \in Frequencies, use \in BOOLEAN :
          TriggerSweep(f, use) \/ TriggerTone(f, use) \/ TriggerWave(f, use)
  BY DEF Trigger
<1>3. CASE TriggerSweep(f, use) \/ TriggerTone(f, use)
  <2>1. (StartChannel \/ ~playing') /\ kind' = kind
    BY <1>3 DEF TriggerSweep, TriggerTone, StopChannel
  <2> QED
    BY <2>1, <1>1
<1>4. CASE TriggerWave(f, use)
  <2>1. kind' = kind /\ kind = "wave" /\ IF wave.on THEN StartChannel ELSE playing' = playing
    BY <1>4 DEF TriggerWave, LetPlay
  <2>2. playing => wave.on
    BY <2>1 DEF IndInv, DacIsOn
  <2> QED
    BY <2>1, <2>2, <1>1
<1> QED
  BY <1>2, <1>3, <1>4

\* Nothing else starts a note or enables a pair, and only NR30 selects a bank.
LEMMA OthersStartNothing ==
    ASSUME IndInv, Next, ~Trigger
    PROVE  /\ kind' = kind
           /\ ~playing' \/ (playing' = playing /\ on' = on)
           /\ wave' = wave \/ \E w \in Waves : SelectWave(w) /\ wave' = w
<1> DEFINE Kept == /\ kind' = kind /\ wave' = wave
                   /\ ~playing' \/ (playing' = playing /\ on' = on)
<1>1. CASE Clock
  BY <1>1 DEF Clock, StopChannel, LetPlay
<1>2. ASSUME NEW v \in SweepWrites, WriteSweep(v) PROVE Kept
  BY <1>2 DEF WriteSweep, StopChannel, LetPlay
<1>3. ASSUME NEW n \in 0 .. MaxLength[kind] - 1, WriteLength(n) PROVE Kept
  BY <1>3 DEF WriteLength, hwVars
<1>4. ASSUME NEW e \in EnvelopeWrites[kind], WriteEnvelope(e) PROVE Kept
  BY <1>4 DEF WriteEnvelope, StopChannel, LetPlay
<1>5. ASSUME NEW v \in Volumes, WriteVolume(v) PROVE Kept
  BY <1>5 DEF WriteVolume
<1>6. ASSUME NEW f \in Frequencies, WriteFrequency(f) PROVE Kept
  BY <1>6 DEF WriteFrequency
<1>7. ASSUME NEW f \in Frequencies, NEW use \in BOOLEAN, WriteControl(f, use) PROVE Kept
  BY <1>7 DEF WriteControl
<1>8. ASSUME NEW m \in Mixes, WriteMix(m) PROVE Kept
  BY <1>8 DEF WriteMix
<1>9. ASSUME NEW enable \in BOOLEAN, WriteMaster(enable) PROVE Kept
  BY <1>9 DEF WriteMaster, StopChannel, LetPlay
<1>10. ASSUME NEW w \in Waves, SelectWave(w)
       PROVE  kind' = kind /\ wave' = w /\ (~playing' \/ (playing' = playing /\ on' = on))
  BY <1>10 DEF SelectWave, StopChannel, LetPlay
<1> QED
  BY <1>1, <1>2, <1>3, <1>4, <1>5, <1>6, <1>7, <1>8, <1>9, <1>10 DEF Next, Write, Trigger

LEMMA StepIsHeard ==
    ASSUME IndInv, FirstPairPlays, Next
    PROVE  HeardStep /\ FirstPairPlays'
<1>1. CASE Trigger
  BY <1>1, TriggerIsHeard DEF HeardStep, FirstPairPlays
<1>2. CASE ~Trigger
  <2>1. FirstPairPlays' /\ (~playing /\ playing' => Trigger)
    BY <1>2, OthersStartNothing DEF FirstPairPlays
  <2>2. ASSUME Audible, playing', ~Audible'
        PROVE  on = {0} /\ \E w \in Waves : SelectWave(w) /\ ~w.mode64 /\ w.bank = 1
    <3>1. kind' = kind /\ on' = on /\ playing /\ Pair(wave) \in on /\ wave' # wave
      BY <1>2, <2>2, OthersStartNothing DEF Audible, Pair
    <3>2. PICK w \in Waves : SelectWave(w) /\ wave' = w
      BY <1>2, <3>1, OthersStartNothing
    <3>3. 0 \in on /\ on \subseteq {0, 1}
      BY <3>1 DEF FirstPairPlays, IndInv, TypeOK
    <3>4. ~(Pair(w)' \in on)
      BY <2>2, <3>1, <3>2 DEF Audible
    <3>5. 1 \notin on /\ ~w.mode64 /\ w.bank = 1
      BY <3>1, <3>3, <3>4 DEF Pair
    <3> QED
      BY <3>2, <3>3, <3>5
  <2> QED
    BY <1>2, <2>1, <2>2 DEF HeardStep
<1> QED
  BY <1>1, <1>2

\* A bank or a mode that the guest selects for a playing note is heard, with the one
\* exception of a note that has one pair, and a trigger ends that.
THEOREM BanksAreHeard == Spec => HeardUnlessReselected
<1>1. Init => FirstPairPlays
  BY DEF Init, FirstPairPlays
<1>2. IndInv /\ FirstPairPlays /\ [Next]_vars => FirstPairPlays'
  <2>1. CASE Next
    BY <2>1, StepIsHeard
  <2>2. CASE UNCHANGED vars
    BY <2>2 DEF FirstPairPlays, vars, hwVars
  <2> QED
    BY <2>1, <2>2
<1>3. IndInv /\ FirstPairPlays /\ [Next]_vars => [HeardStep]_vars
  BY StepIsHeard
<1> QED
  BY <1>1, <1>2, <1>3, IndInvHolds, PTL DEF Spec, HeardUnlessReselected
=============================================================================
