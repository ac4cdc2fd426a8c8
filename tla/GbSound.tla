-------------------------------- MODULE GbSound --------------------------------
(***************************************************************************)
(* The four Game Boy sound channels on the ARM7 (GbSound.c, GbEnvelope.c,    *)
(* GbSweep.c).  Two interrupt handlers work on them: one takes the guest's   *)
(* register writes from the ARM9, the other is the frame sequencer's timer,  *)
(* which clocks length counters, the sweep and the envelopes.  Either may    *)
(* stop a channel, which is played by one or two pairs of the DS's hardware  *)
(* channels.  One handler does not interrupt the other.                     *)
(*                                                                         *)
(* The channels share the sequencer, the master enable and the mixer's       *)
(* registers, all of which are only read by them, so that the module is      *)
(* about one channel, whichever it is.  Duty, noise width and the samples of *)
(* the wave are left out.                                                  *)
(***************************************************************************)
EXTENDS Integers

CONSTANTS
    Kinds,          \* the channels there are
    MaxLength,      \* of each kind: 64, and 256 for the wave channel
    MaxVolume,      \* 15
    MaxPeriod,      \* the longest envelope period, 7
    NoTime,         \* what the sweep makes of a period of 0: 8
    Limit,          \* the first frequency that is too high, 2048
    StepSize,       \* the values of a 16-bit counter
    EnvelopeWrites, \* of each kind: what the guest writes to NRx2,
    SweepWrites,    \* ... to NR10,
    Frequencies,    \* ... to NRx3 and NRx4,
    Mixes,          \* ... to NR50, NR51 and SOUNDCNT_H
    InitialMix,
    Unset           \* a hardware register that has not been written to

AllKinds == {"sweep", "square", "wave", "noise"}
Volumes == 0 .. MaxVolume
Envelopes == [init: Volumes, up: BOOLEAN, period: 0 .. MaxPeriod]
Shifts == 0 .. 7
Steps == 0 .. StepSize - 1
Sweeps == [shift: Shifts, time: 1 .. NoTime, step: Steps, down: BOOLEAN,
           enabled: BOOLEAN, occurred: BOOLEAN, freq: 0 .. Limit - 1]
Waves == [mode64: BOOLEAN, bank: 0 .. 1, on: BOOLEAN]

ASSUME GbConstants ==
    /\ Kinds \subseteq AllKinds
    /\ MaxLength \in [Kinds -> Nat \ {0}]
    /\ MaxVolume \in Nat \ {0} /\ MaxPeriod \in Nat \ {0} /\ NoTime \in Nat \ {0, 1}
    /\ Limit \in Nat \ {0}
    /\ StepSize \in Nat /\ MaxPeriod < StepSize /\ NoTime < StepSize
    /\ EnvelopeWrites \in [Kinds -> SUBSET Envelopes]
    /\ SweepWrites \subseteq [shift: Shifts, time: 1 .. NoTime, down: BOOLEAN]
    /\ Frequencies \subseteq 0 .. Limit - 1
    /\ InitialMix \in Mixes
    /\ Unset \notin 0 .. Limit - 1

VARIABLES
    kind,      \* which channel it is
    master,    \* sMasterEnable
    seq,       \* sFrameSeqStep
    length,    \* sChannelLengthCounter
    useLen,    \* sChannelUseLen
    freq,      \* sChannelFreq; for noise, what NR43 says
    vol,       \* curVolume of the envelope, or sChannelVolume of the wave
    env,       \* initVolume, direction and stepTime of the envelope
    dead,      \* ... why it does not run: "steady" at a volume, "silent", or "no"
    next,      \* ... nextStep
    sweep,     \* sChannel1Sweep
    wave,      \* sChannel3IsMode64, sChannel3CurPlayBank, sChannel3IsEnabled
    mix,       \* sMasterVolumeL .. sMixVolume
    playing,   \* the bit of sChannelPlaying
    on,        \* the pairs of hardware channels that are enabled
    heard,     \* their volume registers: of which pair, for what
    timer      \* their timer registers: for which frequency

lengthVars == <<length, useLen>>
envVars == <<vol, env, dead, next>>
hwVars == <<on, heard, timer>>
vars == <<kind, master, seq, lengthVars, freq, envVars, sweep, wave, mix, playing, hwVars>>

TypeOK ==
    /\ kind \in Kinds /\ master \in BOOLEAN /\ seq \in 0 .. 7
    /\ length \in 0 .. MaxLength[kind] /\ useLen \in BOOLEAN
    /\ freq \in 0 .. Limit - 1
    /\ vol \in Volumes /\ env \in Envelopes
    /\ dead \in {"no", "steady", "silent"} /\ next \in Steps
    /\ sweep \in Sweeps /\ wave \in Waves
    /\ mix \in Mixes
    /\ playing \in BOOLEAN /\ on \subseteq {0, 1}
    /\ heard \in [pair: 0 .. 1, vol: Volumes, mix: Mixes]
    /\ timer \in 0 .. Limit - 1 \union {Unset}

\* gbs_init.
Init ==
    /\ kind \in Kinds /\ master = FALSE /\ seq = 0
    /\ length = 0 /\ useLen = FALSE
    /\ freq = 0
    /\ vol = 0 /\ env = [init |-> 0, up |-> FALSE, period |-> 0]
    /\ dead = "silent" /\ next = 0
    /\ sweep = [shift |-> 0, time |-> NoTime, step |-> 0, down |-> FALSE,
                enabled |-> FALSE, occurred |-> FALSE, freq |-> 0]
    /\ wave = [mode64 |-> FALSE, bank |-> 0, on |-> FALSE]
    /\ mix = InitialMix
    /\ playing = FALSE /\ on = {}
    /\ heard = [pair |-> 0, vol |-> 0, mix |-> InitialMix] /\ timer = Unset

-----------------------------------------------------------------------------
(* The hardware channels.                                                   *)

\* Which pair the wave channel is to be heard from.
Pair(w) == IF kind = "wave" /\ ~w.mode64 /\ w.bank = 1 THEN 1 ELSE 0

\* updateChannelVolume, after the registers have changed.
UpdateVolume == heard' = [pair |-> Pair(wave'), vol |-> vol', mix |-> mix']

\* startChannel: in one bank of 64 samples, or both of 32.
StartChannel ==
    /\ playing' = TRUE
    /\ on' = IF kind = "wave" /\ ~wave'.mode64 THEN {0, 1} ELSE {0}
    /\ UpdateVolume

StopChannel == playing' = FALSE /\ on' = {}
LetPlay == UNCHANGED <<playing, on>>

-----------------------------------------------------------------------------
(* The envelope.                                                            *)

\* updateDead.
Dead(e, v) ==
    CASE e.period = 0 -> IF v = 0 THEN "silent" ELSE "steady"
      [] e.period # 0 /\ ~e.up /\ v = 0 -> "silent"
      [] e.period # 0 /\ e.up /\ v = MaxVolume -> "steady"
      [] OTHER -> "no"

\* The converter has something to convert.
HasDac(e) == e.init # 0 \/ e.up

\* gbs_resetEnvelope.
ResetEnvelope ==
    /\ vol' = env.init
    /\ dead' = Dead(env, env.init)
    /\ next' = IF dead' = "no" THEN env.period ELSE next
    /\ env' = env

\* gbs_updateEnvelope.
ClockEnvelope ==
    LET step == (next + StepSize - 1) % StepSize
        v == IF env.up THEN vol + 1 ELSE vol - 1
    IN /\ env' = env
       /\ CASE dead # "no" -> UNCHANGED <<vol, dead, next>>
            [] dead = "no" /\ step # 0 -> next' = step /\ UNCHANGED <<vol, dead>>
            [] dead = "no" /\ step = 0 /\ v >= MaxVolume ->
                   vol' = MaxVolume /\ dead' = "steady" /\ next' = 0
            [] dead = "no" /\ step = 0 /\ v <= 0 ->
                   vol' = 0 /\ dead' = "silent" /\ next' = 0
            [] OTHER -> vol' = v /\ next' = env.period /\ dead' = dead

-----------------------------------------------------------------------------
(* The sweep.                                                               *)

Divisors == <<1, 2, 4, 8, 16, 32, 64, 128>>

\* The next frequency.
Swept(s) ==
    IF s.down THEN s.freq - s.freq \div Divisors[s.shift + 1]
              ELSE s.freq + s.freq \div Divisors[s.shift + 1]

\* gbs_updateSweep that only looks: whether it finds the next frequency playable,
Fits(s) == s.down \/ Swept(s) < Limit

\* ... and what it leaves if so.
Looked(s) == [s EXCEPT !.occurred = TRUE, !.step = s.time]

\* gbs_updateSweep: where the frequency goes, the next one is looked at as well;
\* a shift of 0 keeps it only on the way up.
UpdateSweep(s) ==
    LET moved == [s EXCEPT !.freq = Swept(s)]
    IN CASE s.time = NoTime -> [sweep |-> [s EXCEPT !.step = s.time], fits |-> TRUE]
         [] s.time # NoTime /\ s.down -> [sweep |-> Looked(moved), fits |-> TRUE]
         [] s.time # NoTime /\ ~s.down /\ ~Fits(s) -> [sweep |-> s, fits |-> FALSE]
         [] s.time # NoTime /\ ~s.down /\ Fits(s) /\ s.shift = 0 ->
                [sweep |-> Looked(s), fits |-> TRUE]
         [] OTHER -> [sweep |-> IF Fits(moved) THEN Looked(moved) ELSE moved,
                      fits |-> Fits(moved)]

\* Whether it writes the channel's frequency.
Moves(s) == s.time # NoTime /\ (s.down \/ (Fits(s) /\ s.shift # 0))

\* Mutant: the step goes on from where it was.
ResetSweepQuietly(f) ==
    [sweep EXCEPT !.freq = f, !.occurred = FALSE,
                  !.enabled = (sweep.time # NoTime \/ sweep.shift # 0)]

\* A trigger copies the frequency; gbs_resetSweep.
ResetSweep(f) ==
    [sweep EXCEPT !.freq = f, !.occurred = FALSE, !.step = sweep.time,
                  !.enabled = (sweep.time # NoTime \/ sweep.shift # 0)]

-----------------------------------------------------------------------------
(* Writes of the guest (gbs_writeReg); all but NR52's are dropped while sound *)
(* is off.                                                                 *)

\* NR10.
WriteSweep(v) ==
    /\ master /\ kind = "sweep"
    /\ sweep' = [sweep EXCEPT !.shift = v.shift, !.time = v.time, !.down = v.down,
                              !.occurred = FALSE]
    /\ IF sweep.occurred /\ sweep.down /\ ~v.down THEN StopChannel ELSE LetPlay
    /\ UNCHANGED <<kind, master, seq, lengthVars, freq, envVars, wave, mix, heard, timer>>

\* NRx1.
WriteLength(n) ==
    /\ master
    /\ length' = MaxLength[kind] - n
    /\ UNCHANGED <<kind, master, seq, useLen, freq, envVars, sweep, wave, mix, playing, hwVars>>

\* NR12, NR22, NR42: gbs_writeEnvelope.
WriteEnvelope(e) ==
    /\ master /\ kind # "wave"
    /\ env' = e /\ vol' = vol
    /\ dead' = Dead(e, vol)
    /\ next' = IF dead' = "no" THEN e.period ELSE next
    /\ mix' = mix /\ wave' = wave
    /\ IF HasDac(e) /\ dead' # "silent" THEN LetPlay ELSE StopChannel
    /\ UpdateVolume
    /\ UNCHANGED <<kind, master, seq, lengthVars, freq, sweep, timer>>

\* NR32.
WriteVolume(v) ==
    /\ master /\ kind = "wave"
    /\ vol' = v
    /\ mix' = mix /\ wave' = wave
    /\ UpdateVolume
    /\ UNCHANGED <<kind, master, seq, lengthVars, freq, env, dead, next, sweep,
                   playing, on, timer>>

\* Mutant: the channel goes on.
SelectWaveOnly(w) ==
    /\ master /\ kind = "wave"
    /\ wave' = w
    /\ mix' = mix /\ vol' = vol
    /\ UpdateVolume /\ LetPlay
    /\ UNCHANGED <<kind, master, seq, lengthVars, freq, env, dead, next, sweep, timer>>

\* NR30.
SelectWave(w) ==
    /\ master /\ kind = "wave"
    /\ wave' = w
    /\ mix' = mix /\ vol' = vol
    /\ IF w.on THEN UpdateVolume /\ LetPlay ELSE StopChannel /\ heard' = heard
    /\ UNCHANGED <<kind, master, seq, lengthVars, freq, env, dead, next, sweep, timer>>

\* NRx3, NR43, and the bits of NRx4 that belong to the frequency.
SetFrequency(f) == freq' = f /\ timer' = f

WriteFrequency(f) ==
    /\ master
    /\ SetFrequency(f)
    /\ UNCHANGED <<kind, master, seq, lengthVars, envVars, sweep, wave, mix, playing, on, heard>>

\* NR44 has none of them.
NewFrequency(f) ==
    IF kind = "noise" THEN UNCHANGED <<freq, timer>> ELSE SetFrequency(f)

\* NRx4 without a trigger.
WriteControl(f, use) ==
    /\ master
    /\ NewFrequency(f)
    /\ useLen' = use
    /\ UNCHANGED <<kind, master, seq, length, envVars, sweep, wave, mix, playing, on, heard>>

\* A trigger gives a counter that has run out its full length.
ReloadLength == length' = IF length = 0 THEN MaxLength[kind] ELSE length

\* NR14 with a trigger.
TriggerSweep(f, use) ==
    LET reset == ResetSweep(f)
        plays == HasDac(env) /\ (reset.shift # 0 => Fits(reset))
    IN /\ master /\ kind = "sweep"
       /\ SetFrequency(f)
       /\ useLen' = use /\ ReloadLength
       /\ ResetEnvelope
       /\ sweep' = IF plays /\ reset.shift # 0 THEN Looked(reset) ELSE reset
       /\ mix' = mix /\ wave' = wave
       /\ IF plays THEN StartChannel ELSE StopChannel /\ heard' = heard
       /\ UNCHANGED <<kind, master, seq>>

\* NR24, NR44 with a trigger.
TriggerTone(f, use) ==
    /\ master /\ kind \in {"square", "noise"}
    /\ NewFrequency(f)
    /\ useLen' = use /\ ReloadLength
    /\ ResetEnvelope
    /\ mix' = mix /\ wave' = wave
    /\ IF HasDac(env) THEN StartChannel ELSE StopChannel /\ heard' = heard
    /\ UNCHANGED <<kind, master, seq, sweep>>

\* NR34 with a trigger.
TriggerWave(f, use) ==
    /\ master /\ kind = "wave"
    /\ SetFrequency(f)
    /\ useLen' = use /\ ReloadLength
    /\ vol' = vol /\ mix' = mix /\ wave' = wave
    /\ IF wave.on THEN StartChannel ELSE LetPlay /\ heard' = heard
    /\ UNCHANGED <<kind, master, seq, env, dead, next, sweep>>

\* Mutant: the volume registers are left for the next note.
WriteMixOnly(m) ==
    /\ master
    /\ mix' = m
    /\ UNCHANGED <<kind, master, seq, lengthVars, freq, envVars, sweep, wave, playing, hwVars>>

\* NR50, NR51, SOUNDCNT_H.
WriteMix(m) ==
    /\ master
    /\ mix' = m /\ vol' = vol /\ wave' = wave
    /\ UpdateVolume
    /\ UNCHANGED <<kind, master, seq, lengthVars, freq, env, dead, next, sweep,
                   playing, on, timer>>

\* NR52: every other register keeps its value.
WriteMaster(enable) ==
    /\ master' = enable
    /\ IF enable THEN LetPlay ELSE StopChannel
    /\ UNCHANGED <<kind, seq, lengthVars, freq, envVars, sweep, wave, mix, heard, timer>>

-----------------------------------------------------------------------------
(* The frame sequencer (gbs_frameSeqTick).                                  *)

LengthClocked == seq % 2 = 0 /\ useLen /\ length # 0

\* Mutant: tested before it is decremented.
LengthEndsLate == LengthClocked /\ length = 0

\* frameSeqUpdateLength.
LengthEnds == LengthClocked /\ length = 1

\* frameSeqUpdateSweep; it does not ask whether the channel is playing.
Stepped == [sweep EXCEPT !.step = (sweep.step + StepSize - 1) % StepSize]
SweepClocked == kind = "sweep" /\ seq \in {2, 6} /\ sweep.enabled
SweepDue == SweepClocked /\ Stepped.step = 0

ClockSweep ==
    /\ sweep' = IF SweepDue THEN UpdateSweep(Stepped).sweep
                ELSE IF SweepClocked THEN Stepped ELSE sweep
    /\ freq' = IF SweepDue /\ Moves(Stepped) THEN sweep'.freq ELSE freq
    /\ timer' = IF SweepDue THEN freq' ELSE timer

\* frameSeqUpdateVolume.
ClockVolume ==
    IF seq = 7 /\ playing /\ kind # "wave"
    THEN ClockEnvelope /\ UpdateVolume
    ELSE UNCHANGED <<envVars, heard>>

Clock ==
    /\ master
    /\ seq' = (seq + 1) % 8
    /\ length' = IF LengthClocked THEN length - 1 ELSE length
    /\ mix' = mix /\ wave' = wave
    /\ ClockSweep /\ ClockVolume
    /\ IF LengthEnds \/ (SweepDue /\ ~UpdateSweep(Stepped).fits) THEN StopChannel ELSE LetPlay
    /\ UNCHANGED <<kind, master, useLen>>

-----------------------------------------------------------------------------
Write ==
    \/ \E v \in SweepWrites : WriteSweep(v)
    \/ \E n \in 0 .. MaxLength[kind] - 1 : WriteLength(n)
    \/ \E e \in EnvelopeWrites[kind] : WriteEnvelope(e)
    \/ \E v \in Volumes : WriteVolume(v)
    \/ \E w \in Waves : SelectWave(w)
    \/ \E f \in Frequencies : WriteFrequency(f)
    \/ \E f \in Frequencies, use \in BOOLEAN :
          WriteControl(f, use) \/ TriggerSweep(f, use) \/ TriggerTone(f, use) \/ TriggerWave(f, use)
    \/ \E m \in Mixes : WriteMix(m)
    \/ \E enable \in BOOLEAN : WriteMaster(enable)

Next == Clock \/ Write

\* The sequencer's timer goes on; the guest need not do anything.
Spec == Init /\ [][Next]_vars /\ WF_vars(Clock)

-----------------------------------------------------------------------------
(* Correctness.                                                             *)

\* Whatever was written when, nothing that counts down in a playing channel starts
\* from 0: the length would never end the note (GbSound.c:555), the sweep and the
\* envelope would wait for 65536 steps (GbSound.c:635, GbEnvelope.c:40).
NothingStalls ==
    playing =>
        /\ length # 0
        /\ kind # "wave" /\ dead = "no" => next \in 1 .. env.period
        /\ kind = "sweep" /\ sweep.enabled => sweep.step \in 1 .. NoTime

\* A channel whose converter is off does not play: neither a write to the other
\* registers nor a trigger brings it back (GbSound.c:779, 801, 838, 874).
DacIsOn == playing => IF kind = "wave" THEN wave.on ELSE HasDac(env)

\* The hardware's volume and timer registers hold what the guest's registers say:
\* both handlers carry every change of volume, envelope, mixer, bank and frequency to
\* them (updateChannelVolume, GbSound.c:272).  NR44 does not set the timer, so that
\* noise needs an NR43 before it.  Whether the pair with the volume is enabled is
\* another matter: a note that started in the mode of 64 samples has one pair only,
\* and the volume of bank 1 goes to the other (GbSound.c:310, 391).
RegistersAreSet ==
    playing =>
        /\ heard = [pair |-> Pair(wave), vol |-> vol, mix |-> mix]
        /\ timer = IF kind = "noise" /\ timer = Unset THEN Unset ELSE freq

\* Exactly the channels that play are enabled in the hardware.
HardwareAgrees == playing <=> on # {}

\* What the envelope is does not depend on how it came to be.
EnvelopeAgrees == kind # "wave" => dead = Dead(env, vol)

TimerAgrees == timer # Unset => timer = freq

IndInv ==
    /\ TypeOK /\ NothingStalls /\ DacIsOn /\ RegistersAreSet
    /\ HardwareAgrees /\ EnvelopeAgrees /\ TimerAgrees

\* When the guest leaves the registers alone, a note of limited length ends ("if it
\* becomes zero, the channel is disabled", GbSound.c:549).
FallsSilent == <>[][Clock]_vars => <>[](master /\ useLen => ~playing)
=============================================================================
