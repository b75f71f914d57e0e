---------------------------- MODULE MeterSession ----------------------------
(***************************************************************************)
(* The session figures of the output meter and their publication: the      *)
(* per-frame session section of AnabasisEngine::process, the two max-holds *)
(* and the published atomics of AnabasisAudioProcessor, and the reset      *)
(* requests that any thread may make (requestMeterReset).                  *)
(*                                                                         *)
(* A peak is represented by the set of frame positions whose peak has been *)
(* taken into it: a hold over the wrong positions is a wrong hold for some *)
(* programme.  The true-peak estimator reports the position ReportLag      *)
(* frames back.                                                            *)
(***************************************************************************)
EXTENDS LoudnessSession, FiniteSets, Sequences

CONSTANTS
    Requesters,   \* threads calling requestMeterReset (the GUI, a host thread)
    ReportLag,    \* TruePeakEstimator::kReportLag
    FadeLen,      \* frames of the bypass crossfade
    MaxBlock      \* bound: frames in a block

ASSUME SessionAssumption == /\ ReportLag \in Nat \ {0}
                            /\ FadeLen \in Nat \ {0}
                            /\ MaxBlock \in Nat \ {0}

VARIABLES
    bypassMix, bypassTarget,              \* the crossfade, in frames
    nonRealtime,                          \* of the block's snapshot
    sessionTpSkip, sessionTpOpenHistory,  \* the latter as a shift register
    sessionSamples,
    callTp, callPeak,                     \* sessionTpMaxCall, sessionPeakCall
    dbTpMaxHold, samplePeakMaxHold,
    pub,                                  \* the published atomics
    meterResetPending,
    left,                                 \* frames left in the block
    stage,                                \* where processBlock is
    toPublish,                            \* the fields it has yet to store
    request,                              \* the stores each requester has left
    openAt                                \* history: the session's open frames

engineVars == <<bypassMix, bypassTarget, nonRealtime, sessionTpSkip,
                sessionTpOpenHistory, sessionSamples, callTp, callPeak>>
holdVars   == <<dbTpMaxHold, samplePeakMaxHold>>
history    == <<openAt>>
sessionVars == <<meterVars, engineVars, holdVars, pub, meterResetPending, left,
                 stage, toPublish, request, history>>

\* The published figures, in the order both writers store them.
Fields == <<"lufsI", "tp", "peak", "lra", "secs">>
Silent == [lufsI |-> 0, tp |-> {}, peak |-> {}, lra |-> 0, secs |-> 0]

AllOpen == [i \in 1..ReportLag |-> TRUE]
Prehistory == (-ReportLag)..(-1)    \* silence, and counted as open

EngineInit ==
    /\ bypassMix = 0 /\ bypassTarget = FALSE /\ nonRealtime = FALSE
    /\ sessionTpSkip = 0 /\ sessionTpOpenHistory = AllOpen
    /\ sessionSamples = 0 /\ callTp = {} /\ callPeak = {}

SessionInit ==
    /\ MeterInit /\ EngineInit
    /\ dbTpMaxHold = {} /\ samplePeakMaxHold = {}
    /\ pub = Silent /\ meterResetPending = FALSE
    /\ left = 0 /\ stage = "idle" /\ toPublish = <<>>
    /\ request = [r \in Requesters |-> <<>>]
    /\ openAt = Prehistory

-----------------------------------------------------------------------------
(* requestMeterReset: clear the display field by field, then announce.     *)

\* Mutant: the flag goes up before the display is cleared.
AnnounceFirst == <<"announce">> \o Fields

RequestOrder == Fields \o <<"announce">>

BeginRequest(r) ==
    /\ request[r] = <<>>
    /\ request' = [request EXCEPT ![r] = RequestOrder]
    /\ UNCHANGED <<meterVars, engineVars, holdVars, pub, meterResetPending,
                   left, stage, toPublish, history>>

RequestStep(r) ==
    /\ request[r] # <<>>
    /\ IF Head(request[r]) = "announce"
         THEN meterResetPending' = TRUE /\ UNCHANGED pub
         ELSE /\ pub' = [pub EXCEPT ![Head(request[r])] = Silent[Head(request[r])]]
              /\ UNCHANGED meterResetPending
    /\ request' = [request EXCEPT ![r] = Tail(@)]
    /\ UNCHANGED <<meterVars, engineVars, holdVars, left, stage, toPublish,
                   history>>

-----------------------------------------------------------------------------
(* The audio thread.                                                       *)

\* resetMeterHolds: the readings still to come describe older positions.
SkipAfterReset == ReportLag

\* engine.resetMeterHolds and the wrapper's share of the reset.
ConsumeReset ==
    /\ meterResetPending
    /\ meterResetPending' = FALSE
    /\ ResetIntegrated
    /\ sessionSamples' = 0 /\ sessionTpSkip' = SkipAfterReset
    /\ dbTpMaxHold' = {} /\ samplePeakMaxHold' = {}
    /\ openAt' = {}
    /\ stage' = "clearing"
    /\ UNCHANGED <<bypassMix, bypassTarget, nonRealtime, sessionTpOpenHistory,
                   callTp, callPeak, pub, left, toPublish, request>>

NothingToReset ==
    /\ ~meterResetPending
    /\ stage' = "process"
    /\ UNCHANGED <<meterVars, engineVars, holdVars, pub, meterResetPending, left,
                   toPublish, request, history>>

BlockTop == stage = "idle" /\ (ConsumeReset \/ NothingToReset)

\* publishSilentMeters on the audio thread.
Clear ==
    /\ stage = "clearing"
    /\ pub' = Silent
    /\ stage' = "process"
    /\ UNCHANGED <<meterVars, engineVars, holdVars, meterResetPending, left,
                   toPublish, request, history>>

\* engine.process begins: a block of n frames under a new snapshot.
BeginProcess(n) ==
    /\ stage = "process"
    /\ Position + n <= MaxSubBlocks * SubBlockLen
    /\ left' = n
    /\ IF n = 0
         THEN stage' = "idle" /\ UNCHANGED <<bypassTarget, nonRealtime, callTp,
                                             callPeak>>
         ELSE /\ stage' = "frames"
              /\ bypassTarget' \in BOOLEAN /\ nonRealtime' \in BOOLEAN
              /\ callTp' = {} /\ callPeak' = {}
    /\ UNCHANGED <<meterVars, bypassMix, sessionTpSkip, sessionTpOpenHistory,
                   sessionSamples, holdVars, pub, meterResetPending, toPublish,
                   request, history>>

\* The crossfade after this frame's step.
Faded == CASE bypassTarget /\ bypassMix < FadeLen -> bypassMix + 1
           [] ~bypassTarget /\ bypassMix > 0       -> bypassMix - 1
           [] OTHER                                -> bypassMix

\* The input is heard in this frame, in a realtime run.
Audition == Faded > 0 /\ ~nonRealtime

\* Mutant: the session resumes when bypass is switched off.
TargetOpen == ~bypassTarget \/ nonRealtime

SessionOpen == Faded = 0 \/ nonRealtime

\* Mutant: the reading is admitted by the frame that carries it.
OpenNow == SessionOpen

\* Whether the position this frame's reading describes was open.
TpPositionOpen == sessionTpOpenHistory[1]

\* Mutant: a frame of a bypass audition counts towards the session length.
EveryFrame == TRUE

CountsFrame == SessionOpen

\* One frame of stage E, the session section.
SessionFrame ==
    /\ stage = "frames" /\ left > 0
    /\ Frame(SessionOpen)
    /\ bypassMix' = Faded
    /\ sessionTpSkip' = IF sessionTpSkip > 0 THEN sessionTpSkip - 1 ELSE 0
    /\ callTp' = IF sessionTpSkip = 0 /\ TpPositionOpen
                   THEN callTp \cup {Position - ReportLag} ELSE callTp
    /\ sessionTpOpenHistory' = Append(Tail(sessionTpOpenHistory), SessionOpen)
    /\ IF CountsFrame THEN /\ callPeak' = callPeak \cup {Position}
                           /\ sessionSamples' = sessionSamples + 1
                      ELSE UNCHANGED <<callPeak, sessionSamples>>
    /\ openAt' = IF Audition THEN openAt ELSE openAt \cup {Position}
    /\ left' = left - 1
    /\ UNCHANGED <<bypassTarget, nonRealtime, holdVars, pub, meterResetPending,
                   stage, toPublish, request>>

\* After engine.process: the holds take the block's peaks.  What was the
\* block's alone is not read again, and forgotten here.
FoldHolds ==
    /\ stage = "frames" /\ left = 0
    /\ dbTpMaxHold' = dbTpMaxHold \cup callTp
    /\ samplePeakMaxHold' = samplePeakMaxHold \cup callPeak
    /\ stage' = "publish" /\ toPublish' = Fields
    /\ nonRealtime' = FALSE /\ callTp' = {} /\ callPeak' = {}
    /\ UNCHANGED <<meterVars, bypassMix, bypassTarget, sessionTpSkip,
                   sessionTpOpenHistory, sessionSamples, pub, meterResetPending,
                   left, request, history>>

\* What a store of processBlock publishes; the loudness through the caches.
Reading == [lufsI |-> integrated'.value, tp |-> dbTpMaxHold,
            peak |-> samplePeakMaxHold, lra |-> lra'.value,
            secs |-> sessionSamples]

PublishField ==
    /\ stage = "publish"
    /\ IF Head(toPublish) = "lufsI" /\ ~integrated.valid THEN ReadIntegrated
       ELSE IF Head(toPublish) = "lra" /\ ~lra.valid THEN ReadLra
       ELSE UNCHANGED meterVars
    /\ pub' = [pub EXCEPT ![Head(toPublish)] = Reading[Head(toPublish)]]
    /\ toPublish' = Tail(toPublish)
    /\ stage' = IF toPublish' = <<>> THEN "idle" ELSE stage
    /\ UNCHANGED <<engineVars, holdVars, meterResetPending, left, request,
                   history>>

\* prepareToPlay.  The crossfade lands on its target; a request stays pending.
PrepareToPlay ==
    /\ stage = "idle"
    /\ Reset
    /\ bypassMix' = IF bypassTarget THEN FadeLen ELSE 0
    /\ sessionTpSkip' = 0 /\ sessionTpOpenHistory' = AllOpen
    /\ sessionSamples' = 0 /\ callTp' = {} /\ callPeak' = {}
    /\ dbTpMaxHold' = {} /\ samplePeakMaxHold' = {}
    /\ pub' = Silent
    /\ openAt' = Prehistory
    /\ UNCHANGED <<bypassTarget, nonRealtime, meterResetPending, left, stage,
                   toPublish, request>>

Audio == \/ BlockTop \/ Clear \/ SessionFrame \/ FoldHolds \/ PublishField
         \/ \E n \in 0..MaxBlock : BeginProcess(n)

SessionNext == \/ Audio \/ PrepareToPlay
               \/ \E r \in Requesters : BeginRequest(r) \/ RequestStep(r)

SessionSpec == SessionInit /\ [][SessionNext]_sessionVars

-----------------------------------------------------------------------------
(* Properties.                                                             *)

Positions == (-ReportLag)..(MaxSubBlocks * SubBlockLen)

SessionTypeOK ==
    /\ MeterTypeOK
    /\ bypassMix \in 0..FadeLen /\ bypassTarget \in BOOLEAN
    /\ nonRealtime \in BOOLEAN /\ meterResetPending \in BOOLEAN
    /\ sessionTpSkip \in 0..ReportLag
    /\ sessionTpOpenHistory \in [1..ReportLag -> BOOLEAN]
    /\ sessionSamples \in Nat /\ left \in 0..MaxBlock
    /\ {callTp, callPeak, dbTpMaxHold, samplePeakMaxHold, openAt}
         \subseteq SUBSET Positions
    /\ pub \in [lufsI : Nat, tp : SUBSET Positions, peak : SUBSET Positions,
                lra : Nat, secs : Nat]
    /\ stage \in {"idle", "clearing", "process", "frames", "publish"}

\* The open positions of this session, up to but not including end.
SessionFrames(end) == {p \in openAt : p < end}

InBlock(call) == IF stage = "frames" THEN call ELSE {}

(* The session true peak is that of exactly the open positions from the    *)
(* reset on, as far as the estimator has reported: no position from before *)
(* the reset, none of a bypass audition, none left out, however pauses and *)
(* resets overlap the reporting lag.  (resetMeterHolds: "every later       *)
(* reading describes a post-reset position, so no post-reset sample is     *)
(* skipped".)                                                              *)
TruePeakOfSession ==
    dbTpMaxHold \cup InBlock(callTp) = SessionFrames(Position - ReportLag)

(* The sample peak and the session length cover exactly the open frames    *)
(* since the reset.                                                        *)
PeakAndLengthOfSession ==
    /\ samplePeakMaxHold \cup InBlock(callPeak) = SessionFrames(Position) \ Prehistory
    /\ sessionSamples = Cardinality(SessionFrames(Position) \ Prehistory)

(* No gating block with an audible bypass frame in it, or less than a      *)
(* sub-block before it, enters the integrated loudness, fades included.    *)
GatesOpenFrames ==
    gated' > gated =>
         \A p \in ((subCount' - GateBlocks - 1) * SubBlockLen)..(Position' - 1) :
            p >= 0 => p \in SessionFrames(Position)'

GatedWasOpen == [][GatesOpenFrames]_sessionVars

(* Once no reset is under way or pending, what is displayed between blocks *)
(* is the session: a clear from another thread never outlasts the figures  *)
(* of a block that already belongs to the new session, and a reset consumed *)
(* by a block of no frames shows at once.  (requestMeterReset: "PUBLISH    *)
(* FIRST, ANNOUNCE SECOND".)                                               *)
RestingDisplay ==
    stage = "idle" /\ ~meterResetPending /\ (\A r \in Requesters : request[r] = <<>>)
      => pub = [lufsI |-> gated, tp |-> dbTpMaxHold, peak |-> samplePeakMaxHold,
                lra |-> ranged, secs |-> sessionSamples]

=============================================================================
