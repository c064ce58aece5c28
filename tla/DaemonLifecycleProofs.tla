----------------------- MODULE DaemonLifecycleProofs -----------------------
(***************************************************************************)
(* What DaemonLifecycle and ReplayCapture promise, proved for every number *)
(* of connections, every set of characters, hellos, configurations and     *)
(* flags, and every set of replay files.                                   *)
(***************************************************************************)
EXTENDS DaemonLifecycle, TLAPS

-----------------------------------------------------------------------------
(* Records of one capture *)

LEMMA FieldTypes ==
  ASSUME NEW c \in Captures
  PROVE  /\ \A x \in Stages : [c EXCEPT !.stage = x] \in Captures
         /\ \A x \in BOOLEAN : /\ [c EXCEPT !.armed = x] \in Captures
                               /\ [c EXCEPT !.process = x] \in Captures
                               /\ [c EXCEPT !.asked = x] \in Captures
         /\ \A x \in {"none", "running", "exited"} : [c EXCEPT !.ffmpeg = x] \in Captures
         /\ \A x \in {"none", "machine", "local", "removed"} :
              [c EXCEPT !.video = x] \in Captures
         /\ \A x \in ReplayFiles \cup {NoFile} : /\ [c EXCEPT !.path = x] \in Captures
                                                /\ [c EXCEPT !.pulled = x] \in Captures
         /\ \A x \in 0..MaxReplayEvents : [c EXCEPT !.heard = x] \in Captures
         /\ \A x \in Exits : [c EXCEPT !.exit = x] \in Captures
  BY DEF Captures

\* Of the pairs of fields that some step writes together.
LEMMA PairTypes ==
  ASSUME NEW c \in Captures
  PROVE  /\ \A x \in Stages, y \in BOOLEAN : [c EXCEPT !.stage = x, !.armed = y] \in Captures
         /\ \A x \in ReplayFiles \cup {NoFile}, y \in Stages : [c EXCEPT !.path = x, !.stage = y] \in Captures
         /\ \A x \in Stages, y \in ReplayFiles \cup {NoFile} : [c EXCEPT !.stage = x, !.path = y] \in Captures
         /\ \A x \in ReplayFiles \cup {NoFile}, y \in Stages : [c EXCEPT !.pulled = x, !.stage = y] \in Captures
         /\ \A x \in Stages, y \in BOOLEAN : [c EXCEPT !.stage = x, !.process = y] \in Captures
         /\ \A x \in BOOLEAN, y \in Exits : [c EXCEPT !.armed = x, !.exit = y] \in Captures
         /\ \A x \in BOOLEAN, y \in {"none", "machine", "local", "removed"} : [c EXCEPT !.asked = x, !.video = y] \in Captures
<1>1. \A x \in Stages, y \in BOOLEAN : [c EXCEPT !.stage = x, !.armed = y] \in Captures
  <2> TAKE x \in Stages, y \in BOOLEAN
  <2> DEFINE d == [c EXCEPT !.stage = x]
  <2>1. d \in Captures  BY FieldTypes
  <2>2. [d EXCEPT !.armed = y] = [c EXCEPT !.stage = x, !.armed = y]  OBVIOUS
  <2> HIDE DEF d
  <2> QED  BY <2>1, <2>2, FieldTypes
<1>2. \A x \in ReplayFiles \cup {NoFile}, y \in Stages : [c EXCEPT !.path = x, !.stage = y] \in Captures
  <2> TAKE x \in ReplayFiles \cup {NoFile}, y \in Stages
  <2> DEFINE d == [c EXCEPT !.path = x]
  <2>1. d \in Captures  BY FieldTypes
  <2>2. [d EXCEPT !.stage = y] = [c EXCEPT !.path = x, !.stage = y]  OBVIOUS
  <2> HIDE DEF d
  <2> QED  BY <2>1, <2>2, FieldTypes
<1>3. \A x \in Stages, y \in ReplayFiles \cup {NoFile} : [c EXCEPT !.stage = x, !.path = y] \in Captures
  <2> TAKE x \in Stages, y \in ReplayFiles \cup {NoFile}
  <2> DEFINE d == [c EXCEPT !.stage = x]
  <2>1. d \in Captures  BY FieldTypes
  <2>2. [d EXCEPT !.path = y] = [c EXCEPT !.stage = x, !.path = y]  OBVIOUS
  <2> HIDE DEF d
  <2> QED  BY <2>1, <2>2, FieldTypes
<1>4. \A x \in ReplayFiles \cup {NoFile}, y \in Stages : [c EXCEPT !.pulled = x, !.stage = y] \in Captures
  <2> TAKE x \in ReplayFiles \cup {NoFile}, y \in Stages
  <2> DEFINE d == [c EXCEPT !.pulled = x]
  <2>1. d \in Captures  BY FieldTypes
  <2>2. [d EXCEPT !.stage = y] = [c EXCEPT !.pulled = x, !.stage = y]  OBVIOUS
  <2> HIDE DEF d
  <2> QED  BY <2>1, <2>2, FieldTypes
<1>5. \A x \in Stages, y \in BOOLEAN : [c EXCEPT !.stage = x, !.process = y] \in Captures
  <2> TAKE x \in Stages, y \in BOOLEAN
  <2> DEFINE d == [c EXCEPT !.stage = x]
  <2>1. d \in Captures  BY FieldTypes
  <2>2. [d EXCEPT !.process = y] = [c EXCEPT !.stage = x, !.process = y]  OBVIOUS
  <2> HIDE DEF d
  <2> QED  BY <2>1, <2>2, FieldTypes
<1>6. \A x \in BOOLEAN, y \in Exits : [c EXCEPT !.armed = x, !.exit = y] \in Captures
  <2> TAKE x \in BOOLEAN, y \in Exits
  <2> DEFINE d == [c EXCEPT !.armed = x]
  <2>1. d \in Captures  BY FieldTypes
  <2>2. [d EXCEPT !.exit = y] = [c EXCEPT !.armed = x, !.exit = y]  OBVIOUS
  <2> HIDE DEF d
  <2> QED  BY <2>1, <2>2, FieldTypes
<1>7. \A x \in BOOLEAN, y \in {"none", "machine", "local", "removed"} : [c EXCEPT !.asked = x, !.video = y] \in Captures
  <2> TAKE x \in BOOLEAN, y \in {"none", "machine", "local", "removed"}
  <2> DEFINE d == [c EXCEPT !.asked = x]
  <2>1. d \in Captures  BY FieldTypes
  <2>2. [d EXCEPT !.video = y] = [c EXCEPT !.asked = x, !.video = y]  OBVIOUS
  <2> HIDE DEF d
  <2> QED  BY <2>1, <2>2, FieldTypes
<1> QED  BY <1>1, <1>2, <1>3, <1>4, <1>5, <1>6, <1>7

LEMMA SpawnTypes ==
  ASSUME NEW c \in Captures
  PROVE  [c EXCEPT !.stage = "receive", !.process = TRUE, !.ffmpeg = "running",
                   !.video = "machine"] \in Captures
<1> DEFINE d == [c EXCEPT !.stage = "receive", !.process = TRUE]
           e == [d EXCEPT !.ffmpeg = "running"]
<1>1. d \in Captures  BY PairTypes DEF Stages
<1>2. [e EXCEPT !.video = "machine"]
        = [c EXCEPT !.stage = "receive", !.process = TRUE, !.ffmpeg = "running",
                    !.video = "machine"]
  OBVIOUS
<1> HIDE DEF d
<1>3. e \in Captures  BY <1>1, FieldTypes
<1> HIDE DEF e
<1> QED  BY <1>2, <1>3, FieldTypes

LEMMA EndTypes ==
  ASSUME NEW c \in Captures
  PROVE  [c EXCEPT !.stage = "over", !.armed = FALSE, !.heard = 0] \in Captures
<1> DEFINE d == [c EXCEPT !.stage = "over", !.armed = FALSE]
<1>1. d \in Captures  BY PairTypes DEF Stages
<1>2. [d EXCEPT !.heard = 0] = [c EXCEPT !.stage = "over", !.armed = FALSE, !.heard = 0]
  OBVIOUS
<1> HIDE DEF d
<1>3. 0 \in 0..MaxReplayEvents  BY CaptureAssumption
<1> QED  BY <1>1, <1>2, <1>3, FieldTypes

-----------------------------------------------------------------------------
(* The inductive invariant of one replay phase: what its stage says of its *)
(* other fields.  The first stages of a recording have no process, and a   *)
(* recording without one was asked for, is on its way into stop_recording  *)
(* or was cut off there.                                                   *)

NoProcess == {"off", "pullFirst", "checkOrb", "spawn", "settle", "pullVideo",
              "pullLast", "cleanup"}
AllPulled == {"receive", "checkOrb", "spawn", "cleanup", "over"}

\* There is a recording, and no handle to it.
Abandoned(c) == c.video # "none" /\ ~c.process

Phase(c) ==
  /\ c.path = NoFile => c.pulled = NoFile
  /\ c.stage \in AllPulled => c.pulled = c.path
  /\ c.stage \in NoProcess => ~c.process
  /\ c.stage \in {"off", "over"} => ~c.armed
  /\ c.exit = "cut" => ~c.armed /\ c.stage \in {"pullLast", "cleanup", "over"}
  /\ c.stage # "over" /\ Abandoned(c) =>
       c.asked \/ c.stage \in {"settle", "pullVideo"} \/ c.exit = "cut"
  /\ c.stage = "over" /\ c.video # "none" =>
       c.asked \/ c.exit \in {"closed", "raised", "cut"}
  /\ c.video = "removed" => c.asked \/ c.exit = "cut"

Well(c) == c \in Captures /\ Phase(c)
Busy(c) == c.stage \notin {"off", "over"}

LEMMA NoCaptureWell == Well(NoCapture) /\ ~Busy(NoCapture)
<1>1. NoCapture \in Captures
  BY CaptureAssumption DEF NoCapture, Captures, Stages, Exits
<1> QED  BY <1>1 DEF NoCapture, Well, Phase, Busy, Abandoned, AllPulled, NoProcess

LEMMA AfterVideoWell ==
  ASSUME NEW c \in Captures, ~c.process,
         c.path = NoFile => c.pulled = NoFile,
         c.exit = "cut" => ~c.armed,
         c.video # "none" => c.asked \/ c.exit = "cut"
  PROVE  Well(AfterVideo(c)) /\ Busy(AfterVideo(c))
<1> DEFINE stage == IF c.path # NoFile /\ c.path # c.pulled THEN "pullLast" ELSE "cleanup"
           d == [c EXCEPT !.stage = stage]
<1>1. AfterVideo(c) = d  BY DEF AfterVideo
<1>2. d \in Captures  BY FieldTypes DEF Stages
<1>3. /\ d.stage = stage /\ (d.armed <=> c.armed) /\ (d.process <=> c.process)
      /\ d.path = c.path /\ d.pulled = c.pulled /\ d.exit = c.exit
      /\ d.video = c.video /\ (d.asked <=> c.asked)
  BY DEF Captures
<1> HIDE DEF d
<1>4. Phase(d) /\ Busy(d)
  BY <1>3 DEF Phase, Busy, Abandoned, AllPulled, NoProcess
<1> QED  BY <1>1, <1>2, <1>4 DEF Well

LEMMA StopRecordingWell ==
  ASSUME NEW c \in Captures, c.exit # "cut",
         c.path = NoFile => c.pulled = NoFile,
         c.video # "none" => c.process \/ c.asked,
         c.video = "removed" => c.asked
  PROVE  Well(StopRecording(c)) /\ Busy(StopRecording(c))
<1>1. CASE ~c.process
  BY <1>1, AfterVideoWell DEF StopRecording
<1>2. CASE c.process /\ c.ffmpeg = "running"
  <2> DEFINE d == [c EXCEPT !.stage = "waitFfmpeg"]
  <2>1. StopRecording(c) = d  BY <1>2 DEF StopRecording
  <2>2. d \in Captures  BY FieldTypes DEF Stages
  <2>3. /\ d.stage = "waitFfmpeg" /\ (d.process <=> c.process)
        /\ d.path = c.path /\ d.pulled = c.pulled /\ d.exit = c.exit
        /\ d.video = c.video /\ (d.asked <=> c.asked)
    BY DEF Captures
  <2> HIDE DEF d
  <2>4. Phase(d) /\ Busy(d)
    BY <2>3, <1>2 DEF Phase, Busy, Abandoned, AllPulled, NoProcess
  <2> QED  BY <2>1, <2>2, <2>4 DEF Well
<1>3. CASE c.process /\ c.ffmpeg # "running"
  <2> DEFINE d == [c EXCEPT !.stage = "settle", !.process = FALSE]
  <2>1. StopRecording(c) = d  BY <1>3 DEF StopRecording
  <2>2. d \in Captures  BY PairTypes DEF Stages
  <2>3. /\ d.stage = "settle" /\ ~d.process
        /\ d.path = c.path /\ d.pulled = c.pulled /\ d.exit = c.exit
        /\ d.video = c.video /\ (d.asked <=> c.asked)
    BY DEF Captures
  <2> HIDE DEF d
  <2>4. Phase(d) /\ Busy(d)
    BY <2>3 DEF Phase, Busy, Abandoned, AllPulled, NoProcess
  <2> QED  BY <2>1, <2>2, <2>4 DEF Well
<1> QED  BY <1>1, <1>2, <1>3

LEMMA InterruptedWell ==
  ASSUME NEW c, Well(c), c.exit # "cut", NEW exit \in Exits, Busy(c),
         exit = "cut" <=> c.stage \in {"settle", "pullVideo"}
  PROVE  Well(Interrupted(c, exit)) /\ Busy(Interrupted(c, exit))
<1> DEFINE d == [c EXCEPT !.armed = FALSE, !.exit = exit]
<1>1. c \in Captures /\ Phase(c)  BY DEF Well
<1>2. d \in Captures  BY <1>1, PairTypes
<1>3. /\ ~d.armed /\ d.exit = exit /\ (d.process <=> c.process)
      /\ d.path = c.path /\ d.pulled = c.pulled
      /\ d.video = c.video /\ (d.asked <=> c.asked)
  BY <1>1 DEF Captures
<1>4. Interrupted(c, exit) = IF c.process THEN StopRecording(d) ELSE AfterVideo(d)
  BY DEF Interrupted, WasStarted
<1> HIDE DEF d
<1>5. d.path = NoFile => d.pulled = NoFile
  BY <1>1, <1>3 DEF Phase
<1>6. CASE c.process
  <2>1. exit # "cut"  BY <1>1, <1>6 DEF Phase, NoProcess
  <2>2. d.video = "removed" => d.asked  BY <1>1, <1>3 DEF Phase
  <2>3. d.exit # "cut" /\ (d.video # "none" => d.process \/ d.asked)
    BY <2>1, <1>3, <1>6
  <2> QED  BY <1>2, <1>4, <1>5, <1>6, <2>2, <2>3, StopRecordingWell
<1>7. CASE ~c.process
  <2>1. d.video # "none" => d.asked \/ d.exit = "cut"
    BY <1>1, <1>3, <1>7 DEF Phase, Abandoned, Busy
  <2>2. ~d.process /\ (d.exit = "cut" => ~d.armed)  BY <1>3, <1>7
  <2> QED  BY <1>2, <1>4, <1>5, <1>7, <2>1, <2>2, AfterVideoWell
<1> QED  BY <1>1, <1>6, <1>7 DEF Captures

LEMMA BeginCaptureWell ==
  ASSUME NEW path \in ReplayFiles \cup {NoFile}
  PROVE  Well(BeginCapture(path)) /\ Busy(BeginCapture(path))
<1>1. NoCapture \in Captures  BY NoCaptureWell DEF Well
<1>2. CASE path = NoFile
  <2> DEFINE d == [NoCapture EXCEPT !.stage = "receive", !.armed = TRUE]
  <2>1. BeginCapture(path) = d  BY <1>2 DEF BeginCapture, Receive
  <2>2. d \in Captures  BY <1>1, PairTypes DEF Stages
  <2>3. Phase(d) /\ Busy(d)
    BY DEF Phase, Busy, Abandoned, AllPulled, NoProcess, NoCapture
  <2> QED  BY <2>1, <2>2, <2>3 DEF Well
<1>3. CASE path # NoFile
  <2> DEFINE d == [NoCapture EXCEPT !.stage = "pullFirst", !.path = path]
  <2>1. BeginCapture(path) = d  BY <1>3 DEF BeginCapture
  <2>2. d \in Captures  BY <1>1, PairTypes DEF Stages
  <2>3. Phase(d) /\ Busy(d)
    BY <1>3 DEF Phase, Busy, Abandoned, AllPulled, NoProcess, NoCapture
  <2> QED  BY <2>1, <2>2, <2>3 DEF Well
<1> QED  BY <1>2, <1>3

-----------------------------------------------------------------------------
(* The steps of a replay phase keep it well-formed *)

Moves(s) == \E d : Well(d) /\ d.stage # "off" /\ Becomes(s, d)

LEMMA EndWell ==
  ASSUME NEW c \in Captures, c.pulled = c.path, c.exit # "cut",
         c.video # "none" => c.asked \/ c.exit \in {"closed", "raised"},
         c.video = "removed" => c.asked
  PROVE  Well([c EXCEPT !.stage = "over", !.armed = FALSE, !.heard = 0])
<1> DEFINE d == [c EXCEPT !.stage = "over", !.armed = FALSE, !.heard = 0]
<1>1. d \in Captures  BY EndTypes
<1>2. /\ d.stage = "over" /\ ~d.armed /\ (d.process <=> c.process)
      /\ d.path = c.path /\ d.pulled = c.pulled /\ d.exit = c.exit
      /\ d.video = c.video /\ (d.asked <=> c.asked)
  BY DEF Captures
<1> HIDE DEF d
<1>3. Phase(d)  BY <1>2 DEF Phase, Abandoned, AllPulled, NoProcess
<1>4. Well(d)  BY <1>1, <1>3 DEF Well
<1> QED  BY <1>4 DEF d

LEMMA HearMoves ==
  ASSUME NEW s, NEW c, Well(c), c.stage # "off", c.heard = capture[s].heard, Hear(s, c)
  PROVE  Moves(s)
<1> DEFINE n == c.heard + 1
           d == [c EXCEPT !.heard = n]
<1>1. c \in Captures /\ Phase(c)  BY DEF Well
<1>2. c.heard \in 0..MaxReplayEvents  BY <1>1 DEF Captures
<1>3. n \in 0..MaxReplayEvents  BY <1>2, CaptureAssumption DEF Hear
<1>4. Becomes(s, d)  BY DEF Hear
<1>5. /\ d.stage = c.stage /\ (d.armed <=> c.armed) /\ (d.process <=> c.process)
      /\ d.path = c.path /\ d.pulled = c.pulled /\ d.exit = c.exit
      /\ d.video = c.video /\ (d.asked <=> c.asked)
  BY <1>1 DEF Captures
<1> HIDE DEF n
<1>6. d \in Captures  BY <1>1, <1>3, FieldTypes
<1> HIDE DEF d
<1>7. Phase(d)  BY <1>1, <1>5 DEF Phase, Abandoned
<1> QED  BY <1>4, <1>5, <1>6, <1>7 DEF Moves, Well

LEMMA EventMoves ==
  ASSUME NEW s, Well(capture[s]),
         (\E file \in ReplayFiles : ReplaySaved(s, file)) \/ ReplayStarted(s)
           \/ ReplayEnded(s) \/ ForeignEvent(s) \/ ReadClosed(s) \/ ReadLost(s)
  PROVE  Moves(s)
<1> DEFINE c == capture[s]
<1>1. c \in Captures /\ Phase(c)  BY DEF Well
<1>2. c.stage = "receive"
  BY DEF ReplaySaved, ReplayStarted, ReplayEnded, ForeignEvent, ReadClosed, ReadLost,
         Hear, At
<1>3. c.pulled = c.path /\ c.exit # "cut" /\ (c.path = NoFile => c.pulled = NoFile)
  BY <1>1, <1>2 DEF Phase, AllPulled
<1>4. /\ Abandoned(c) => c.asked
      /\ c.video = "removed" => c.asked
  BY <1>1, <1>2, <1>3 DEF Phase
<1>5. ASSUME NEW file \in ReplayFiles, ReplaySaved(s, file)  PROVE Moves(s)
  <2>1. file # NoFile  BY CaptureAssumption
  <2>2. CASE c.pulled = file
    <3> DEFINE d == [c EXCEPT !.path = file]
    <3>1. Hear(s, d)  BY <1>5, <2>2 DEF ReplaySaved
    <3>2. d \in Captures  BY <1>1, FieldTypes
    <3>3. /\ d.stage = c.stage /\ (d.armed <=> c.armed) /\ (d.process <=> c.process)
          /\ d.path = file /\ d.pulled = c.pulled /\ d.exit = c.exit
          /\ d.video = c.video /\ (d.asked <=> c.asked) /\ d.heard = c.heard
      BY <1>1 DEF Captures
    <3> HIDE DEF d
    <3>4. Phase(d)  BY <1>2, <1>3, <1>4, <2>1, <2>2, <3>3 DEF Phase, Abandoned, AllPulled, NoProcess
    <3>5. Well(d)  BY <3>2, <3>4 DEF Well
    <3>6. d.stage # "off" /\ d.heard = capture[s].heard  BY <1>2, <3>3
    <3> HIDE DEF c
    <3> QED  BY <3>1, <3>5, <3>6, HearMoves
  <2>3. CASE c.pulled # file
    <3> DEFINE d == [c EXCEPT !.path = file, !.stage = "pullSaved"]
    <3>1. Hear(s, d)  BY <1>5, <2>3 DEF ReplaySaved
    <3>2. d \in Captures  BY <1>1, PairTypes DEF Stages
    <3>3. /\ d.stage = "pullSaved" /\ (d.armed <=> c.armed) /\ (d.process <=> c.process)
          /\ d.path = file /\ d.pulled = c.pulled /\ d.exit = c.exit
          /\ d.video = c.video /\ (d.asked <=> c.asked) /\ d.heard = c.heard
      BY <1>1 DEF Captures
    <3> HIDE DEF d
    <3>4. Phase(d)  BY <1>3, <1>4, <2>1, <3>3 DEF Phase, Abandoned, AllPulled, NoProcess
    <3>5. Well(d)  BY <3>2, <3>4 DEF Well
    <3>6. d.stage # "off" /\ d.heard = capture[s].heard  BY <3>3
    <3> HIDE DEF c
    <3> QED  BY <3>1, <3>5, <3>6, HearMoves
  <2> QED  BY <2>2, <2>3
<1>6. ASSUME ReplayStarted(s)  PROVE Moves(s)
  <2>1. CASE c.process
    <3>1. Hear(s, c)  BY <1>6, <2>1 DEF ReplayStarted
    <3>2. c.stage # "off"  BY <1>2
    <3> QED  BY <3>1, <3>2, HearMoves
  <2>2. CASE ~c.process
    <3> DEFINE d == [c EXCEPT !.stage = "checkOrb"]
    <3>1. Hear(s, d)  BY <1>6, <2>2 DEF ReplayStarted
    <3>2. d \in Captures  BY <1>1, FieldTypes DEF Stages
    <3>3. /\ d.stage = "checkOrb" /\ (d.armed <=> c.armed) /\ (d.process <=> c.process)
          /\ d.path = c.path /\ d.pulled = c.pulled /\ d.exit = c.exit
          /\ d.video = c.video /\ (d.asked <=> c.asked) /\ d.heard = c.heard
      BY <1>1 DEF Captures
    <3> HIDE DEF d
    <3>4. Phase(d)  BY <1>3, <1>4, <2>2, <3>3 DEF Phase, Abandoned, AllPulled, NoProcess
    <3>5. Well(d)  BY <3>2, <3>4 DEF Well
    <3>6. d.stage # "off" /\ d.heard = capture[s].heard  BY <3>3
    <3> HIDE DEF c
    <3> QED  BY <3>1, <3>5, <3>6, HearMoves
  <2> QED  BY <2>1, <2>2
<1>7. ASSUME ReplayEnded(s)  PROVE Moves(s)
  <2> DEFINE d == [c EXCEPT !.exit = "ended"]
  <2>1. Becomes(s, StopRecording(d))  BY <1>7 DEF ReplayEnded
  <2>2. d \in Captures  BY <1>1, FieldTypes DEF Exits
  <2>3. /\ (d.process <=> c.process) /\ d.path = c.path /\ d.pulled = c.pulled
        /\ d.exit = "ended" /\ d.video = c.video /\ (d.asked <=> c.asked)
    BY <1>1 DEF Captures
  <2> HIDE DEF d
  <2>4. /\ d.path = NoFile => d.pulled = NoFile
        /\ d.video # "none" => d.process \/ d.asked
        /\ d.video = "removed" => d.asked
        /\ d.exit # "cut"
    BY <1>3, <1>4, <2>3 DEF Abandoned
  <2>5. Well(StopRecording(d)) /\ Busy(StopRecording(d))
    BY <2>2, <2>4, StopRecordingWell
  <2> QED  BY <2>1, <2>5 DEF Moves, Busy
<1>8. ASSUME NEW exit \in {"raised", "closed"}, Ends(s, [c EXCEPT !.exit = exit])
      PROVE  Moves(s)
  <2> DEFINE d == [c EXCEPT !.exit = exit]
             e == [d EXCEPT !.stage = "over", !.armed = FALSE, !.heard = 0]
  <2>1. Becomes(s, e)  BY <1>8 DEF Ends
  <2>2. d \in Captures  BY <1>1, FieldTypes DEF Exits
  <2>3. /\ d.path = c.path /\ d.pulled = c.pulled
        /\ d.exit = exit /\ d.video = c.video /\ (d.asked <=> c.asked)
    BY <1>1 DEF Captures
  <2>4. e.stage = "over"  BY <2>2 DEF Captures
  <2> HIDE DEF d
  <2>5. Well(e)  BY <1>3, <1>4, <2>2, <2>3, EndWell
  <2> HIDE DEF e
  <2> QED  BY <2>1, <2>4, <2>5 DEF Moves
<1>9. ASSUME ReadLost(s)  PROVE Moves(s)
  <2>1. Becomes(s, Interrupted(c, "lost"))  BY <1>9 DEF ReadLost
  <2>2. "lost" \in Exits /\ Busy(c)  BY <1>2 DEF Exits, Busy
  <2>3. "lost" = "cut" <=> c.stage \in {"settle", "pullVideo"}  BY <1>2
  <2>4. Well(Interrupted(c, "lost")) /\ Busy(Interrupted(c, "lost"))
    BY <1>3, <2>2, <2>3, InterruptedWell
  <2> QED  BY <2>1, <2>4 DEF Moves, Busy
<1> QED  BY <1>5, <1>6, <1>7, <1>8, <1>9 DEF ForeignEvent, ReadClosed

LEMMA PullMoves ==
  ASSUME NEW s, Well(capture[s]), PullFirst(s) \/ PullSaved(s) \/ PullLast(s)
  PROVE  Moves(s)
<1> DEFINE c == capture[s]
           e == [c EXCEPT !.pulled = c.path]
           d == [e EXCEPT !.stage = "receive", !.armed = TRUE]
           f == [c EXCEPT !.pulled = c.path, !.stage = "cleanup"]
<1>1. c \in Captures /\ Phase(c) /\ c.path \in ReplayFiles \cup {NoFile}
  BY DEF Well, Captures
<1>2. c.stage \in {"pullFirst", "pullSaved", "pullLast"}
  BY DEF PullFirst, PullSaved, PullLast, At
<1>3. /\ c.video = "removed" => c.asked \/ c.exit = "cut"
      /\ Abandoned(c) => c.asked \/ c.exit = "cut"
      /\ c.exit = "cut" => c.stage = "pullLast" /\ ~c.armed
  BY <1>1, <1>2 DEF Phase
<1>4. CASE PullFirst(s) \/ PullSaved(s)
  <2>1. Becomes(s, d) /\ c.stage # "pullLast"
    BY <1>4 DEF PullFirst, PullSaved, Receive, At
  <2>2. e \in Captures  BY <1>1, FieldTypes
  <2>3. d \in Captures  BY <2>2, PairTypes DEF Stages
  <2>4. /\ d.stage = "receive" /\ (d.process <=> c.process)
        /\ d.path = c.path /\ d.pulled = c.path /\ d.exit = c.exit
        /\ d.video = c.video /\ (d.asked <=> c.asked)
    BY <1>1 DEF Captures
  <2> HIDE DEF d
  <2>5. Phase(d)  BY <1>3, <2>1, <2>4 DEF Phase, Abandoned, AllPulled, NoProcess
  <2> QED  BY <2>1, <2>3, <2>4, <2>5 DEF Moves, Well
<1>5. CASE PullLast(s)
  <2>1. Becomes(s, f) /\ c.stage = "pullLast"  BY <1>5 DEF PullLast, At
  <2>2. f \in Captures  BY <1>1, PairTypes DEF Stages
  <2>3. ~c.process  BY <1>1, <2>1 DEF Phase, NoProcess
  <2>4. /\ f.stage = "cleanup" /\ (f.process <=> c.process) /\ (f.armed <=> c.armed)
        /\ f.path = c.path /\ f.pulled = c.path /\ f.exit = c.exit
        /\ f.video = c.video /\ (f.asked <=> c.asked)
    BY <1>1 DEF Captures
  <2> HIDE DEF f
  <2>5. Phase(f)  BY <1>3, <2>3, <2>4 DEF Phase, Abandoned, AllPulled, NoProcess
  <2> QED  BY <2>1, <2>2, <2>4, <2>5 DEF Moves, Well
<1> QED  BY <1>4, <1>5

LEMMA RecordingMoves ==
  ASSUME NEW s, Well(capture[s]), OrbChecked(s) \/ Spawned(s) \/ Settled(s)
  PROVE  Moves(s)
<1> DEFINE c == capture[s]
<1>1. c \in Captures /\ Phase(c)  BY DEF Well
<1>2. c.stage \in {"checkOrb", "spawn", "settle"}  BY DEF OrbChecked, Spawned, Settled, At
<1>3. ~c.process /\ c.exit # "cut" /\ (c.path = NoFile => c.pulled = NoFile)
  BY <1>1, <1>2 DEF Phase, NoProcess
<1>4. /\ c.video = "removed" => c.asked
      /\ c.video # "none" => c.asked \/ c.stage = "settle"
      /\ c.stage # "settle" => c.pulled = c.path
  BY <1>1, <1>2, <1>3 DEF Phase, Abandoned, AllPulled
<1>5. ASSUME NEW stage \in {"spawn", "receive", "pullVideo"},
             (stage = "pullVideo" <=> c.stage = "settle"),
             Becomes(s, [c EXCEPT !.stage = stage])
      PROVE  Moves(s)
  <2> DEFINE d == [c EXCEPT !.stage = stage]
  <2>1. d \in Captures  BY <1>1, FieldTypes DEF Stages
  <2>2. /\ d.stage = stage /\ (d.process <=> c.process) /\ (d.armed <=> c.armed)
        /\ d.path = c.path /\ d.pulled = c.pulled /\ d.exit = c.exit
        /\ d.video = c.video /\ (d.asked <=> c.asked)
    BY <1>1 DEF Captures
  <2>3. Becomes(s, d)  BY <1>5
  <2> HIDE DEF d
  <2>4. Phase(d)  BY <1>3, <1>4, <1>5, <2>2 DEF Phase, Abandoned, AllPulled, NoProcess
  <2> QED  BY <2>1, <2>2, <2>3, <2>4 DEF Moves, Well
<1>6. ASSUME Becomes(s, [c EXCEPT !.stage = "receive", !.process = TRUE,
                                  !.ffmpeg = "running", !.video = "machine"]),
             c.stage = "spawn"
      PROVE  Moves(s)
  <2> DEFINE d == [c EXCEPT !.stage = "receive", !.process = TRUE,
                            !.ffmpeg = "running", !.video = "machine"]
  <2>1. d \in Captures  BY <1>1, SpawnTypes
  <2>2. /\ d.stage = "receive" /\ d.process /\ (d.armed <=> c.armed)
        /\ d.path = c.path /\ d.pulled = c.pulled /\ d.exit = c.exit
        /\ d.video = "machine"
    BY <1>1 DEF Captures
  <2>3. Becomes(s, d)  BY <1>6
  <2> HIDE DEF d
  <2>4. Phase(d)  BY <1>3, <1>4, <1>6, <2>2 DEF Phase, Abandoned, AllPulled, NoProcess
  <2> QED  BY <2>1, <2>2, <2>3, <2>4 DEF Moves, Well
<1>7. CASE OrbChecked(s)
  <2>1. PICK stage \in {"spawn", "receive"} : Becomes(s, [c EXCEPT !.stage = stage])
    BY <1>7 DEF OrbChecked
  <2>2. stage # "pullVideo" /\ c.stage # "settle"  BY <1>7 DEF OrbChecked, At
  <2> QED  BY <2>1, <2>2, <1>5
<1>8. CASE Spawned(s)
  <2>1. c.stage = "spawn"  BY <1>8 DEF Spawned, At
  <2> QED  BY <2>1, <1>5, <1>6, <1>8 DEF Spawned
<1>9. CASE Settled(s)
  BY <1>5, <1>9 DEF Settled, At
<1> QED  BY <1>7, <1>8, <1>9

LEMMA FinishingMoves ==
  ASSUME NEW s, Well(capture[s]), FfmpegAwaited(s) \/ VideoPulled(s) \/ CleanedUp(s)
  PROVE  Moves(s)
<1> DEFINE c == capture[s]
<1>1. c \in Captures /\ Phase(c)  BY DEF Well
<1>2. c.path = NoFile => c.pulled = NoFile  BY <1>1 DEF Phase
<1>3. CASE FfmpegAwaited(s)
  <2>1. c.stage = "waitFfmpeg" /\ Becomes(s, StopRecording(c))
    BY <1>3 DEF FfmpegAwaited, At
  <2>2. /\ c.exit # "cut"
        /\ c.video # "none" => c.process \/ c.asked
        /\ c.video = "removed" => c.asked
    BY <1>1, <2>1 DEF Phase, Abandoned
  <2>3. Well(StopRecording(c)) /\ Busy(StopRecording(c))
    BY <1>1, <1>2, <2>2, StopRecordingWell
  <2> QED  BY <2>1, <2>3 DEF Moves, Busy
<1>4. CASE VideoPulled(s)
  <2>1. PICK where \in {"machine", "local"} :
          Becomes(s, AfterVideo([c EXCEPT !.asked = TRUE, !.video = where]))
    BY <1>4 DEF VideoPulled
  <2>2. ~c.process /\ c.exit # "cut"
    BY <1>1, <1>4 DEF VideoPulled, At, Phase, NoProcess
  <2> DEFINE d == [c EXCEPT !.asked = TRUE, !.video = where]
  <2>3. d \in Captures  BY <1>1, PairTypes
  <2>4. /\ (d.process <=> c.process) /\ d.path = c.path /\ d.pulled = c.pulled
        /\ d.exit = c.exit /\ d.asked
    BY <1>1 DEF Captures
  <2>5. Becomes(s, AfterVideo(d))  BY <2>1
  <2> HIDE DEF d
  <2>6. /\ ~d.process
        /\ d.path = NoFile => d.pulled = NoFile
        /\ d.exit = "cut" => ~d.armed
        /\ d.video # "none" => d.asked \/ d.exit = "cut"
    BY <1>2, <2>2, <2>4
  <2>7. Well(AfterVideo(d)) /\ Busy(AfterVideo(d))
    BY <2>3, <2>6, AfterVideoWell
  <2> QED  BY <2>5, <2>7 DEF Moves, Busy
<1>5. CASE CleanedUp(s)
  <2> DEFINE video == IF c.video = "machine" THEN "removed" ELSE c.video
             e == [c EXCEPT !.video = video]
             d == [e EXCEPT !.stage = "over", !.armed = FALSE, !.heard = 0]
  <2>1. c.stage = "cleanup" /\ Becomes(s, d)  BY <1>5 DEF CleanedUp, At, Ends
  <2>2. video \in {"none", "machine", "local", "removed"}  BY <1>1 DEF Captures
  <2>3. (video = "none") <=> (c.video = "none")  OBVIOUS
  <2>4. e \in Captures  BY <1>1, <2>2, FieldTypes
  <2>5. d \in Captures  BY <2>4, EndTypes
  <2>6. /\ d.stage = "over" /\ (d.process <=> c.process) /\ ~d.armed
        /\ d.path = c.path /\ d.pulled = c.pulled /\ d.exit = c.exit
        /\ d.video = video /\ (d.asked <=> c.asked)
    BY <1>1 DEF Captures
  <2>7. /\ ~c.process /\ c.pulled = c.path
        /\ c.video # "none" => c.asked \/ c.exit = "cut"
    BY <1>1, <2>1 DEF Phase, Abandoned, AllPulled, NoProcess
  <2> HIDE DEF d, video
  <2>8. Phase(d)
    <3>1. d.video # "none" => d.asked \/ d.exit = "cut"
      BY <2>3, <2>6, <2>7
    <3> QED  BY <2>6, <2>7, <3>1 DEF Phase, Abandoned, AllPulled, NoProcess
  <2> QED  BY <2>1, <2>5, <2>6, <2>8 DEF Moves, Well
<1> QED  BY <1>3, <1>4, <1>5

LEMMA TimeoutMoves ==
  ASSUME NEW s, Well(capture[s]), TimeoutStrikes(s)
  PROVE  Moves(s)
<1> DEFINE c == capture[s]
           exit == IF c.stage \in {"settle", "pullVideo"} THEN "cut" ELSE "timeout"
<1>1. c.armed /\ Becomes(s, Interrupted(c, exit))  BY DEF TimeoutStrikes
<1>2. Phase(c)  BY DEF Well
<1>3. c.exit # "cut" /\ Busy(c)  BY <1>1, <1>2 DEF Phase, Busy
<1>4. exit \in Exits  BY DEF Exits
<1>5. exit = "cut" <=> c.stage \in {"settle", "pullVideo"}  OBVIOUS
<1> HIDE DEF exit
<1>6. Well(Interrupted(c, exit)) /\ Busy(Interrupted(c, exit))
  BY <1>3, <1>4, <1>5, InterruptedWell
<1> QED  BY <1>1, <1>6 DEF Moves, Busy

LEMMA CaptureStepMoves ==
  ASSUME NEW s, Well(capture[s]), CaptureStep(s)
  PROVE  Moves(s)
<1>1. CASE Awaited(s)
  BY <1>1, PullMoves, RecordingMoves, FinishingMoves DEF Awaited
<1> QED  BY <1>1, EventMoves, TimeoutMoves DEF CaptureStep

\* ffmpeg ends in the machine whatever the stage; nothing else depends on it.
LEMMA FfmpegMoves ==
  ASSUME NEW s, Well(capture[s]), FfmpegExits(s)
  PROVE  \E d : Well(d) /\ d.stage = capture[s].stage /\ Becomes(s, d)
<1> DEFINE c == capture[s]
           d == [c EXCEPT !.ffmpeg = "exited"]
<1>1. c \in Captures /\ Phase(c)  BY DEF Well
<1>2. Becomes(s, d)  BY DEF FfmpegExits
<1>3. d \in Captures  BY <1>1, FieldTypes
<1>4. /\ d.stage = c.stage /\ (d.process <=> c.process) /\ (d.armed <=> c.armed)
      /\ d.path = c.path /\ d.pulled = c.pulled /\ d.exit = c.exit
      /\ d.video = c.video /\ (d.asked <=> c.asked)
  BY <1>1 DEF Captures
<1> HIDE DEF d
<1>5. Phase(d)  BY <1>1, <1>4 DEF Phase, Abandoned, AllPulled, NoProcess
<1> QED  BY <1>2, <1>3, <1>4, <1>5 DEF Well

-----------------------------------------------------------------------------
(* The inductive invariant of the daemon *)

Steps == {"none", "hello", "choosing", "ack", "match", "replay", "done"}

\* There is a server as long as a handler is at work; once it is stopped, or
\* before and after the process, there is none; and one whose connections were
\* cut is never open again.
Serving ==
  /\ server = "none" => \A s \in Sessions : handler[s] \in {"none", "done"}
  /\ stopped \/ cli \in {"starting", "exited"} => server = "none"
  /\ cut => server # "open"
  /\ cli = "starting" => ~cut /\ \A s \in Sessions : handler[s] = "none"
  /\ \A s \in Sessions : s > accepted => handler[s] = "none"

\* A replay phase that goes on is the work of its handler.
Replaying ==
  \A s \in Sessions : Well(capture[s]) /\ (Busy(capture[s]) => handler[s] = "replay")

Legal(p, c) == c.character \in Characters /\ (c.fallback => c.character = Seeded[p])

Told(s) == [p \in Players |-> choice[s][p].character]

Traceable == [Players -> Choices \cup {Unchosen}]

\* What is chosen is legal, what is acknowledged is what was chosen, and the
\* traces are made of it.
Selecting ==
  /\ choice \in [Sessions -> Traceable]
  /\ DOMAIN ack = Sessions /\ DOMAIN traces = Sessions
  /\ \A s \in Sessions :
       /\ \A p \in Players : choice[s][p] = Unchosen \/ Legal(p, choice[s][p])
       /\ handler[s] \in {"none", "hello", "choosing", "ack"} => traces[s] = <<>>
       /\ handler[s] = "match" => ack[s] = Told(s)
       /\ traces[s] # <<>> => traces[s] = choice[s] /\ ack[s] = Told(s)
       /\ config.characters = "llm_choice"
             /\ (handler[s] \in {"ack", "match"} \/ traces[s] # <<>>)
           => \A p \in Players : Legal(p, choice[s][p])

IInv == TypeOK /\ Serving /\ Replaying /\ Selecting

LEMMA InitHolds == Init => IInv
<1> SUFFICES ASSUME Init PROVE IInv
  OBVIOUS
<1>1. /\ capture \in [Sessions -> Captures]
      /\ Replaying
  BY NoCaptureWell DEF Init, InitCapture, Replaying, Well
<1>2. config \in Configs
  BY DEF Init, NoConfig, Configs, Providers, Players
<1>3. TypeOK
  <2>1. 0 \in 0..MaxSessions
    BY CaptureAssumption
  <2>2. cut \in BOOLEAN /\ stopped \in BOOLEAN
    BY DEF Init
  <2> QED  BY <1>1, <1>2, <2>1, <2>2 DEF Init, TypeOK, CaptureTypeOK
<1>4. Serving
  BY DEF Init, Serving
<1>5. Selecting
  BY DEF Init, Selecting, Traceable
<1> QED  BY <1>1, <1>3, <1>4, <1>5 DEF IInv

-----------------------------------------------------------------------------
(* What a handler does to the server and to the other handlers *)

\* The part of the type invariant that no handler's own work is about.
ServingTypes ==
  /\ cli \in {"starting", "serving", "stopping", "exited"} /\ code \in 0..2
  /\ config \in Configs
  /\ server \in {"none", "open", "closing"} /\ cut \in BOOLEAN
  /\ stopped \in BOOLEAN /\ stops \subseteq {"task", "cli"}
  /\ accepted \in 0..MaxSessions

LEMMA HandlerServes ==
  ASSUME TypeOK, Serving, NEW s \in Sessions, handler[s] \notin {"none", "done"},
         NEW h \in Steps, handler' = [handler EXCEPT ![s] = h],
         h = handler[s] \/ h # "none",
         UNCHANGED process, accepted' = accepted,
         UNCHANGED serving \/ RequestStop
  PROVE  ServingTypes' /\ handler' \in [Sessions -> Steps] /\ Serving'
<1>1. cli' = cli /\ code' = code /\ config' = config
  BY DEF process
<1>2. handler \in [Sessions -> Steps]
  BY DEF TypeOK, Steps
<1>3. server # "none"
  BY DEF Serving
<1>4. /\ server' \in {server, "closing"} /\ cut' = cut /\ stopped' = stopped
      /\ stops' \subseteq {"task", "cli"}
  BY <1>3 DEF serving, RequestStop, TypeOK
<1>5. server' # "none" /\ (server' = "open" => server = "open")
  BY <1>3, <1>4
<1>6. \A t \in Sessions : handler'[t] = IF t = s THEN h ELSE handler[t]
  BY <1>2
<1>7. cli # "starting" /\ cli # "exited" /\ ~stopped
  BY <1>3 DEF Serving
<1>8. \A t \in Sessions : t > accepted => handler'[t] = "none"
  BY <1>6 DEF Serving
<1>9. ServingTypes'
  BY <1>1, <1>4 DEF TypeOK, ServingTypes
<1>10. Serving'
  BY <1>1, <1>4, <1>5, <1>7, <1>8 DEF Serving
<1> QED  BY <1>2, <1>9, <1>10

\* A handler that is done, or waits for the replay, has made its choices.
LEMMA ChoicesStay ==
  ASSUME TypeOK, Selecting, NEW s \in Sessions,
         NEW h \in {"replay", "done"}, handler' = [handler EXCEPT ![s] = h],
         config' = config, choice' = choice, ack' = ack, traces' = traces
  PROVE  Selecting'
<1>1. handler \in [Sessions -> Steps]  BY DEF TypeOK, Steps
<1>2. \A t \in Sessions : handler'[t] = IF t = s THEN h ELSE handler[t]
  BY <1>1
<1>3. \A t \in Sessions : Told(t)' = Told(t)
  BY DEF Told
<1>4. \A t \in Sessions : handler'[t] \notin {"replay", "done"} => handler'[t] = handler[t]
  BY <1>2
<1> QED  BY <1>3, <1>4 DEF Selecting

LEMMA OthersReplay ==
  ASSUME TypeOK, Replaying, NEW s \in Sessions, NEW h,
         handler' = [handler EXCEPT ![s] = h], capture' = capture,
         h = "replay" \/ handler[s] # "replay"
  PROVE  capture' \in [Sessions -> Captures] /\ Replaying'
<1>1. handler \in [Sessions -> Steps]  BY DEF TypeOK, Steps
<1>2. \A t \in Sessions : handler[t] = "replay" => handler'[t] = "replay"
  BY <1>1
<1> QED  BY <1>2 DEF Replaying, TypeOK, CaptureTypeOK

LEMMA ReplayMoves ==
  ASSUME TypeOK, Replaying, NEW s \in Sessions, NEW h, NEW d,
         handler' = [handler EXCEPT ![s] = h], Becomes(s, d),
         Well(d), Busy(d) => h = "replay"
  PROVE  capture' \in [Sessions -> Captures] /\ Replaying' /\ capture'[s] = d
<1>1. handler \in [Sessions -> Steps] /\ capture \in [Sessions -> Captures]
  BY DEF TypeOK, Steps, CaptureTypeOK
<1>2. d \in Captures  BY DEF Well
<1>3. capture' \in [Sessions -> Captures] /\ capture'[s] = d
  BY <1>1, <1>2 DEF Becomes
<1>4. \A t \in Sessions \ {s} : handler'[t] = handler[t] /\ capture'[t] = capture[t]
  BY <1>1 DEF Becomes
<1>5. handler'[s] = h  BY <1>1
<1>6. \A t \in Sessions : Well(capture'[t]) /\ (Busy(capture'[t]) => handler'[t] = "replay")
  <2> TAKE t \in Sessions
  <2>1. CASE t = s
    BY <2>1, <1>3, <1>5
  <2>2. CASE t # s
    BY <2>2, <1>4 DEF Replaying
  <2> QED  BY <2>1, <2>2
<1> QED  BY <1>3, <1>6 DEF Replaying

LEMMA ReturnKeeps ==
  ASSUME IInv, NEW s \in Sessions, handler[s] \notin {"none", "done"},
         NEW how \in {"served", "refused", "gone", "raised"}, Return(s, how),
         UNCHANGED serving \/ RequestStop,
         UNCHANGED <<process, accepted, choice, ack, traces>>,
         (capture' = capture /\ handler[s] # "replay")
           \/ (\E d : Becomes(s, d) /\ Well(d) /\ ~Busy(d))
  PROVE  IInv' /\ outcome'[s] = how
<1>1. TypeOK /\ Serving /\ Replaying /\ Selecting
  BY DEF IInv
<1>2. /\ UNCHANGED process /\ config' = config /\ accepted' = accepted
      /\ choice' = choice /\ ack' = ack /\ traces' = traces
  BY DEF process
<1>3. handler' = [handler EXCEPT ![s] = "done"]
  BY DEF Return
<1>4. ServingTypes' /\ handler' \in [Sessions -> Steps] /\ Serving'
  BY <1>1, <1>2, <1>3, HandlerServes DEF Steps
<1>5. /\ link' \in [Sessions -> {"none", "open", "closed", "lost"}]
      /\ outcome' \in [Sessions -> {"none", "served", "refused", "gone", "raised"}]
      /\ outcome'[s] = how
  BY <1>1 DEF Return, TypeOK
<1>6. Selecting'
  BY <1>1, <1>2, <1>3, ChoicesStay
<1>7. capture' \in [Sessions -> Captures] /\ Replaying'
  <2>1. CASE capture' = capture /\ handler[s] # "replay"
    BY <1>1, <1>3, <2>1, OthersReplay
  <2>2. ASSUME NEW d, Becomes(s, d), Well(d), ~Busy(d)
        PROVE  capture' \in [Sessions -> Captures] /\ Replaying'
    BY <1>1, <1>3, <2>2, ReplayMoves
  <2> QED  BY <2>1, <2>2
<1>8. TypeOK'
  BY <1>4, <1>5, <1>7 DEF TypeOK, ServingTypes, Steps, CaptureTypeOK
<1> QED  BY <1>4, <1>5, <1>6, <1>7, <1>8 DEF IInv

\* A step of a handler that has not returned: whatever it is, the server, the
\* replay phases and the types are safe, and the rest is about the choices.
LEMMA StageKeeps ==
  ASSUME IInv, NEW s \in Sessions, handler[s] \notin {"none", "done", "replay"},
         NEW h \in Steps \ {"none", "replay"}, handler' = [handler EXCEPT ![s] = h],
         UNCHANGED <<process, serving, accepted, link, outcome, capture>>,
         Selecting'
  PROVE  IInv'
<1>1. TypeOK /\ Serving /\ Replaying
  BY DEF IInv
<1>2. UNCHANGED process /\ UNCHANGED serving
  OBVIOUS
<1>3. /\ accepted' = accepted /\ link' = link /\ outcome' = outcome
      /\ capture' = capture
  OBVIOUS
<1>4. h \in Steps /\ (h = handler[s] \/ h # "none")
  OBVIOUS
<1>5. ServingTypes' /\ handler' \in [Sessions -> Steps] /\ Serving'
  BY <1>1, <1>2, <1>3, <1>4, HandlerServes
<1>6. capture' \in [Sessions -> Captures] /\ Replaying'
  BY <1>1, <1>3, OthersReplay
<1>7. TypeOK'
  BY <1>1, <1>3, <1>5, <1>6 DEF TypeOK, ServingTypes, Steps, CaptureTypeOK
<1> QED  BY <1>5, <1>6, <1>7 DEF IInv

-----------------------------------------------------------------------------
(* The handshake *)

LEMMA HelloSelects ==
  ASSUME TypeOK, Selecting, NEW s \in Sessions, handler[s] \in {"none", "hello"},
         NEW h \in {"hello", "choosing", "ack"}, handler' = [handler EXCEPT ![s] = h],
         h = "ack" => config.characters # "llm_choice",
         config' = config, choice' = choice, ack' = ack, traces' = traces
  PROVE  Selecting'
<1>1. handler \in [Sessions -> Steps]  BY DEF TypeOK, Steps
<1>2. handler'[s] = h /\ \A t \in Sessions \ {s} : handler'[t] = handler[t]
  BY <1>1
<1>3. \A t \in Sessions : Told(t)' = Told(t)
  BY DEF Told
<1>4. traces[s] = <<>>  BY DEF Selecting
<1>5. ASSUME NEW t \in Sessions
      PROVE  /\ \A p \in Players : choice'[t][p] = Unchosen \/ Legal(p, choice'[t][p])
             /\ handler'[t] \in {"none", "hello", "choosing", "ack"} => traces'[t] = <<>>
             /\ handler'[t] = "match" => ack'[t] = Told(t)'
             /\ traces'[t] # <<>> => traces'[t] = choice'[t] /\ ack'[t] = Told(t)'
             /\ config'.characters = "llm_choice"
                   /\ (handler'[t] \in {"ack", "match"} \/ traces'[t] # <<>>)
                 => \A p \in Players : Legal(p, choice'[t][p])
  <2>1. CASE t = s
    BY <2>1, <1>2, <1>4 DEF Selecting
  <2>2. CASE t # s
    BY <2>2, <1>2, <1>3 DEF Selecting
  <2> QED  BY <2>1, <2>2
<1> QED  BY <1>5 DEF Selecting

LEMMA ReadHelloKeeps ==
  ASSUME IInv, NEW s \in Sessions, ReadHello(s) \/ HelloMissing(s)
  PROVE  IInv'
<1>1. handler[s] = "hello"
  BY DEF ReadHello, HelloMissing
<1>2. ASSUME NEW how \in {"raised", "refused", "gone"}, EndHandshake(s, how),
             UNCHANGED <<process, accepted, choice, ack, traces, capture>>
      PROVE  IInv'
  <2>1. Return(s, how) /\ UNCHANGED serving  BY <1>2 DEF EndHandshake
  <2>2. UNCHANGED <<process, accepted, choice, ack, traces>> /\ capture' = capture
    BY <1>2
  <2> QED  BY <1>1, <2>1, <2>2, ReturnKeeps
<1>3. CASE HelloMissing(s)
  BY <1>2, <1>3 DEF HelloMissing
<1>4. CASE ReadHello(s)
  <2>1. PICK f \in Hellos :
          IF Refusal(f) = "none"
          THEN /\ Stage(s, IF config.characters = "llm_choice" THEN "choosing" ELSE "ack")
               /\ UNCHANGED <<serving, outcome, link>>
          ELSE EndHandshake(s, IF Refusal(f) = "raised" THEN "raised" ELSE "refused")
    BY <1>4 DEF ReadHello
  <2>2. UNCHANGED <<process, accepted, choice, ack, traces, capture>>
    BY <1>4 DEF ReadHello
  <2>3. CASE Refusal(f) = "none"
    <3> DEFINE h == IF config.characters = "llm_choice" THEN "choosing" ELSE "ack"
    <3>1. handler' = [handler EXCEPT ![s] = h] /\ UNCHANGED <<serving, outcome, link>>
      BY <2>1, <2>3 DEF Stage
    <3>2. h \in {"choosing", "ack"} /\ (h = "ack" => config.characters # "llm_choice")
      OBVIOUS
    <3>3. config' = config /\ choice' = choice /\ ack' = ack /\ traces' = traces
      BY <2>2 DEF process
    <3> HIDE DEF h
    <3>4. Selecting'  BY <1>1, <3>1, <3>2, <3>3, HelloSelects DEF IInv
    <3>5. h \in Steps \ {"none", "replay"}  BY <3>2 DEF Steps
    <3>6. UNCHANGED <<process, serving, accepted, link, outcome, capture>>
      BY <2>2, <3>1
    <3> QED  BY <1>1, <3>1, <3>4, <3>5, <3>6, StageKeeps
  <2>4. CASE Refusal(f) # "none"
    BY <2>1, <2>2, <2>4, <1>2
  <2> QED  BY <2>3, <2>4
<1> QED  BY <1>3, <1>4

\* Whatever a provider answers, the choice is a legal one.
LEMMA PossibleLegal ==
  ASSUME NEW p \in Players, NEW c \in Possible(p)
  PROVE  c \in Choices /\ Legal(p, c)
<1>1. Seeded[p] \in Characters
  BY LifecycleAssumption
<1>2. ASSUME NEW fallback \in BOOLEAN
      PROVE  /\ RandomCharacter(p, fallback) \in Choices
             /\ Legal(p, RandomCharacter(p, fallback))
  BY <1>1 DEF RandomCharacter, Choices, Legal
<1>3. ASSUME NEW said
      PROVE  ParseChoice(p, said) \in Choices /\ Legal(p, ParseChoice(p, said))
  <2>1. CASE said \in Characters
    BY <2>1 DEF ParseChoice, Chosen, Choices, Legal
  <2>2. CASE said \notin Characters
    BY <1>2, <2>2 DEF ParseChoice
  <2> QED  BY <2>1, <2>2
<1>4. \/ c = RandomCharacter(p, FALSE) \/ c = RandomCharacter(p, TRUE)
      \/ \E said : c = ParseChoice(p, said)
  BY DEF Possible
<1> QED  BY <1>2, <1>3, <1>4

LEMMA ChooseKeeps ==
  ASSUME IInv, NEW s \in Sessions, NEW p \in Players, ChooseCharacter(s, p)
  PROVE  IInv'
<1>1. TypeOK /\ Selecting /\ handler[s] = "choosing" /\ choice \in [Sessions -> Traceable]
  BY DEF IInv, Selecting, ChooseCharacter
<1>2. handler \in [Sessions -> Steps]  BY <1>1 DEF TypeOK, Steps
<1>3. PICK c \in Possible(p) : choice' = [choice EXCEPT ![s][p] = c]
  BY DEF ChooseCharacter
<1>4. c \in Choices /\ Legal(p, c)
  BY PossibleLegal
<1>5. /\ choice' \in [Sessions -> Traceable]
      /\ choice'[s][p] = c
      /\ \A q \in Players \ {p} : choice'[s][q] = choice[s][q]
      /\ \A t \in Sessions \ {s} : choice'[t] = choice[t]
  BY <1>1, <1>3, <1>4 DEF Traceable
<1>6. UNCHANGED <<process, serving, accepted, link, outcome, ack, traces, capture>>
  BY DEF ChooseCharacter
<1>7. config' = config /\ ack' = ack /\ traces' = traces
  BY <1>6 DEF process
<1>8. PICK h \in {"choosing", "ack"} :
        /\ handler' = [handler EXCEPT ![s] = h]
        /\ h = "ack" => \A q \in Players \ {p} : choice[s][q] # Unchosen
  <2>1. CASE \A q \in Players \ {p} : choice[s][q] # Unchosen
    BY <2>1 DEF ChooseCharacter, Stage
  <2>2. CASE ~(\A q \in Players \ {p} : choice[s][q] # Unchosen)
    <3>1. handler' = handler  BY <2>2 DEF ChooseCharacter
    <3>2. handler' = [handler EXCEPT ![s] = "choosing"]
      BY <3>1, <1>1, <1>2
    <3> QED  BY <3>2
  <2> QED  BY <2>1, <2>2
<1>9. handler'[s] = h /\ \A t \in Sessions \ {s} : handler'[t] = handler[t]
  BY <1>2, <1>8
<1>10. traces[s] = <<>>  BY <1>1 DEF Selecting
<1>11. \A q \in Players : choice'[s][q] = Unchosen \/ Legal(q, choice'[s][q])
  BY <1>1, <1>4, <1>5 DEF Selecting
<1>12. h = "ack" => \A q \in Players : Legal(q, choice'[s][q])
  BY <1>1, <1>4, <1>5, <1>8 DEF Selecting
<1>13. \A t \in Sessions \ {s} : Told(t)' = Told(t)
  BY <1>5 DEF Told
<1>14. ASSUME NEW t \in Sessions
       PROVE  /\ \A q \in Players : choice'[t][q] = Unchosen \/ Legal(q, choice'[t][q])
              /\ handler'[t] \in {"none", "hello", "choosing", "ack"} => traces'[t] = <<>>
              /\ handler'[t] = "match" => ack'[t] = Told(t)'
              /\ traces'[t] # <<>> => traces'[t] = choice'[t] /\ ack'[t] = Told(t)'
              /\ config'.characters = "llm_choice"
                    /\ (handler'[t] \in {"ack", "match"} \/ traces'[t] # <<>>)
                  => \A q \in Players : Legal(q, choice'[t][q])
  <2>1. CASE t = s
    BY <2>1, <1>7, <1>8, <1>9, <1>10, <1>11, <1>12
  <2>2. CASE t # s
    BY <2>2, <1>1, <1>5, <1>7, <1>9, <1>13 DEF Selecting
  <2> QED  BY <2>1, <2>2
<1>15. Selecting'
  BY <1>1, <1>5, <1>7, <1>14 DEF Selecting
<1>16. h \in Steps \ {"none", "replay"}  BY DEF Steps
<1>17. UNCHANGED <<process, serving, accepted, link, outcome, capture>>
  BY <1>6
<1>18. handler[s] \notin {"none", "done", "replay"}  BY <1>1
<1> QED  BY <1>8, <1>15, <1>16, <1>17, <1>18, StageKeeps

LEMMA SendAckKeeps ==
  ASSUME IInv, NEW s \in Sessions, SendAck(s)
  PROVE  IInv'
<1>1. TypeOK /\ Selecting /\ handler[s] = "ack"
  BY DEF IInv, SendAck
<1>2. UNCHANGED <<process, accepted, choice, traces, capture>>
  BY DEF SendAck
<1>3. CASE link[s] = "open"
  <2>1. /\ handler' = [handler EXCEPT ![s] = "match"]
        /\ ack' = [ack EXCEPT ![s] = Told(s)]
        /\ UNCHANGED <<serving, outcome, link>>
    BY <1>3 DEF SendAck, Stage, Told
  <2>2. config' = config /\ choice' = choice /\ traces' = traces
    BY <1>2 DEF process
  <2>3. handler \in [Sessions -> Steps]  BY <1>1 DEF TypeOK, Steps
  <2>4. handler'[s] = "match" /\ \A t \in Sessions \ {s} : handler'[t] = handler[t]
    BY <2>1, <2>3
  <2>5. /\ DOMAIN ack' = Sessions /\ ack'[s] = Told(s)
        /\ \A t \in Sessions \ {s} : ack'[t] = ack[t]
    BY <1>1, <2>1 DEF Selecting
  <2>6. \A t \in Sessions : Told(t)' = Told(t)
    BY <2>2 DEF Told
  <2>7. ASSUME NEW t \in Sessions
        PROVE  /\ \A p \in Players : choice'[t][p] = Unchosen \/ Legal(p, choice'[t][p])
               /\ handler'[t] \in {"none", "hello", "choosing", "ack"} => traces'[t] = <<>>
               /\ handler'[t] = "match" => ack'[t] = Told(t)'
               /\ traces'[t] # <<>> => traces'[t] = choice'[t] /\ ack'[t] = Told(t)'
               /\ config'.characters = "llm_choice"
                     /\ (handler'[t] \in {"ack", "match"} \/ traces'[t] # <<>>)
                   => \A p \in Players : Legal(p, choice'[t][p])
    <3>1. CASE t = s
      BY <3>1, <1>1, <2>2, <2>4, <2>5, <2>6 DEF Selecting
    <3>2. CASE t # s
      BY <3>2, <1>1, <2>2, <2>4, <2>5, <2>6 DEF Selecting
    <3> QED  BY <3>1, <3>2
  <2>8. Selecting'
    BY <1>1, <2>2, <2>5, <2>7 DEF Selecting
  <2>9. "match" \in Steps \ {"none", "replay"}  BY DEF Steps
  <2>10. UNCHANGED <<process, serving, accepted, link, outcome, capture>>
    BY <1>2, <2>1
  <2>11. handler[s] \notin {"none", "done", "replay"}  BY <1>1
  <2> QED  BY <2>1, <2>8, <2>9, <2>10, <2>11, StageKeeps
<1>4. CASE link[s] # "open"
  <2>1. Return(s, "gone") /\ UNCHANGED serving /\ ack' = ack
    BY <1>4 DEF SendAck, EndHandshake
  <2>2. UNCHANGED <<process, accepted, choice, ack, traces>> /\ capture' = capture
    BY <1>2, <2>1
  <2>3. handler[s] \notin {"none", "done"} /\ handler[s] # "replay"  BY <1>1
  <2> QED  BY <2>1, <2>2, <2>3, ReturnKeeps
<1> QED  BY <1>3, <1>4

-----------------------------------------------------------------------------
(* The session *)

LEMMA BeginMatchKeeps ==
  ASSUME IInv, NEW s \in Sessions, BeginMatch(s)
  PROVE  IInv'
<1>1. TypeOK /\ Selecting /\ handler[s] = "match"
  BY DEF IInv, BeginMatch
<1>2. /\ traces' = [traces EXCEPT ![s] = choice[s]]
      /\ UNCHANGED <<process, serving, accepted, link, handler, outcome, choice, ack,
                     capture>>
  BY DEF BeginMatch, Traced
<1>3. config' = config /\ choice' = choice /\ ack' = ack /\ handler' = handler
  BY <1>2 DEF process
<1>4. /\ DOMAIN traces' = Sessions /\ traces'[s] = choice[s]
      /\ \A t \in Sessions \ {s} : traces'[t] = traces[t]
  BY <1>1, <1>2 DEF Selecting
<1>5. \A t \in Sessions : Told(t)' = Told(t)
  BY <1>3 DEF Told
<1>6. ASSUME NEW t \in Sessions
      PROVE  /\ \A p \in Players : choice'[t][p] = Unchosen \/ Legal(p, choice'[t][p])
             /\ handler'[t] \in {"none", "hello", "choosing", "ack"} => traces'[t] = <<>>
             /\ handler'[t] = "match" => ack'[t] = Told(t)'
             /\ traces'[t] # <<>> => traces'[t] = choice'[t] /\ ack'[t] = Told(t)'
             /\ config'.characters = "llm_choice"
                   /\ (handler'[t] \in {"ack", "match"} \/ traces'[t] # <<>>)
                 => \A p \in Players : Legal(p, choice'[t][p])
  <2>1. CASE t = s
    BY <2>1, <1>1, <1>3, <1>4, <1>5 DEF Selecting
  <2>2. CASE t # s
    BY <2>2, <1>1, <1>3, <1>4, <1>5 DEF Selecting
  <2> QED  BY <2>1, <2>2
<1>7. Selecting'
  BY <1>1, <1>3, <1>4, <1>6 DEF Selecting
<1>8. handler' = [handler EXCEPT ![s] = "match"]
  <2>1. handler \in [Sessions -> Steps]  BY <1>1 DEF TypeOK, Steps
  <2> QED  BY <1>1, <1>3, <2>1
<1>9. "match" \in Steps \ {"none", "replay"}  BY DEF Steps
<1>10. UNCHANGED <<process, serving, accepted, link, outcome, capture>>
  BY <1>2
<1>11. handler[s] \notin {"none", "done", "replay"}  BY <1>1
<1> QED  BY <1>7, <1>8, <1>9, <1>10, <1>11, StageKeeps

\* A session that ends and leaves no replay phase behind.
LEMMA LeaveKeeps ==
  ASSUME IInv, NEW s \in Sessions, handler[s] = "match",
         Leave(s) \/ (Return(s, "raised") /\ UNCHANGED serving),
         UNCHANGED <<process, accepted, choice, ack, traces>>, capture' = capture
  PROVE  IInv' /\ (Leave(s) => outcome'[s] = "served")
<1>1. handler[s] \notin {"none", "done"} /\ handler[s] # "replay"
  OBVIOUS
<1>2. CASE Leave(s)
  <2>1. Return(s, "served") /\ RequestStop  BY <1>2 DEF Leave
  <2> QED  BY <1>1, <2>1, ReturnKeeps
<1>3. CASE Return(s, "raised") /\ UNCHANGED serving /\ ~Leave(s)
  BY <1>1, <1>3, ReturnKeeps
<1> QED  BY <1>2, <1>3

LEMMA SessionEndKeeps ==
  ASSUME IInv, NEW s \in Sessions,
         MatchEnds(s) \/ ConnectionEnds(s) \/ LoopFails(s) \/ FinalizeRaises(s)
  PROVE  IInv'
<1>1. handler[s] = "match"
  BY DEF MatchEnds, ConnectionEnds, LoopFails, FinalizeRaises
<1>2. UNCHANGED <<process, accepted, choice, ack, traces>>
  BY DEF MatchEnds, ConnectionEnds, LoopFails, FinalizeRaises
<1>3. CASE ConnectionEnds(s) \/ LoopFails(s) \/ FinalizeRaises(s)
  <2>1. capture' = capture /\ (Leave(s) \/ (Return(s, "raised") /\ UNCHANGED serving))
    BY <1>3 DEF ConnectionEnds, LoopFails, FinalizeRaises
  <2> QED  BY <1>1, <1>2, <2>1, LeaveKeeps
<1>4. CASE MatchEnds(s) /\ ~(config.replay /\ traces[s] # <<>>)
  <2>1. Leave(s) /\ capture' = capture  BY <1>4 DEF MatchEnds
  <2> QED  BY <1>1, <1>2, <2>1, LeaveKeeps
<1>5. CASE MatchEnds(s) /\ config.replay /\ traces[s] # <<>>
  <2>1. /\ handler' = [handler EXCEPT ![s] = "replay"]
        /\ UNCHANGED <<serving, outcome, link>>
    BY <1>5 DEF MatchEnds, Stage
  <2>2. PICK path \in ReplayFiles \cup {NoFile} : Becomes(s, BeginCapture(path))
    BY <1>5 DEF MatchEnds
  <2>3. TypeOK /\ Serving /\ Replaying /\ Selecting  BY DEF IInv
  <2>4. /\ config' = config /\ accepted' = accepted /\ UNCHANGED process
        /\ choice' = choice /\ ack' = ack /\ traces' = traces
        /\ link' = link /\ outcome' = outcome /\ UNCHANGED serving
    BY <1>2, <2>1 DEF process
  <2>5. "replay" \in Steps /\ handler[s] \notin {"none", "done"}
    BY <1>1 DEF Steps
  <2>6. ServingTypes' /\ handler' \in [Sessions -> Steps] /\ Serving'
    BY <2>1, <2>3, <2>4, <2>5, HandlerServes
  <2>7. capture' \in [Sessions -> Captures] /\ Replaying'
    BY <2>1, <2>2, <2>3, BeginCaptureWell, ReplayMoves
  <2>8. Selecting'
    BY <2>1, <2>3, <2>4, ChoicesStay
  <2>9. TypeOK'
    BY <2>3, <2>4, <2>6, <2>7 DEF TypeOK, ServingTypes, Steps, CaptureTypeOK
  <2> QED  BY <2>6, <2>7, <2>8, <2>9 DEF IInv
<1> QED  BY <1>3, <1>4, <1>5

LEMMA ReplayKeeps ==
  ASSUME IInv, NEW s \in Sessions, Replay(s)
  PROVE  IInv'
<1>1. TypeOK /\ Serving /\ Replaying /\ Selecting /\ handler[s] = "replay"
  BY DEF IInv, Replay
<1>2. UNCHANGED <<process, accepted, choice, ack, traces>>
  BY DEF Replay
<1>3. Well(capture[s]) /\ CaptureStep(s)
  BY <1>1 DEF Replay, Replaying
<1>4. PICK d : Well(d) /\ d.stage # "off" /\ Becomes(s, d)
  BY <1>3, CaptureStepMoves DEF Moves
<1>5. capture'[s] = d
  BY <1>1, <1>4 DEF TypeOK, CaptureTypeOK, Becomes
<1>6. CASE d.stage = "over"
  <2>1. ~Busy(d)  BY <1>6 DEF Busy
  <2>2. \/ Return(s, "raised") /\ UNCHANGED serving
        \/ Return(s, "served") /\ RequestStop
    BY <1>5, <1>6 DEF Replay, Leave
  <2>3. handler[s] \notin {"none", "done"}  BY <1>1
  <2>4. \E e : Becomes(s, e) /\ Well(e) /\ ~Busy(e)
    BY <1>4, <2>1
  <2>5. CASE Return(s, "raised") /\ UNCHANGED serving
    BY <1>2, <2>3, <2>4, <2>5, ReturnKeeps
  <2>6. CASE Return(s, "served") /\ RequestStop
    BY <1>2, <2>3, <2>4, <2>6, ReturnKeeps
  <2> QED  BY <2>2, <2>5, <2>6
<1>7. CASE d.stage # "over"
  <2>1. UNCHANGED <<serving, link, handler, outcome>>
    BY <1>5, <1>7 DEF Replay
  <2>2. handler' = [handler EXCEPT ![s] = "replay"]
    BY <1>1, <2>1 DEF TypeOK
  <2>3. /\ config' = config /\ accepted' = accepted /\ UNCHANGED process
        /\ choice' = choice /\ ack' = ack /\ traces' = traces
        /\ link' = link /\ outcome' = outcome /\ UNCHANGED serving
    BY <1>2, <2>1 DEF process
  <2>4. "replay" \in Steps /\ handler[s] \notin {"none", "done"}
    BY <1>1 DEF Steps
  <2>5. ServingTypes' /\ handler' \in [Sessions -> Steps] /\ Serving'
    BY <1>1, <2>2, <2>3, <2>4, HandlerServes
  <2>6. capture' \in [Sessions -> Captures] /\ Replaying'
    BY <1>1, <1>4, <2>2, ReplayMoves
  <2>7. Selecting'
    BY <1>1, <2>2, <2>3, ChoicesStay
  <2>8. TypeOK'
    BY <1>1, <2>3, <2>5, <2>6 DEF TypeOK, ServingTypes, Steps, CaptureTypeOK
  <2> QED  BY <2>5, <2>6, <2>7, <2>8 DEF IInv
<1> QED  BY <1>6, <1>7

LEMMA FfmpegKeeps ==
  ASSUME IInv, NEW s \in Sessions, Ffmpeg(s)
  PROVE  IInv'
<1>1. TypeOK /\ Serving /\ Replaying /\ Selecting
  BY DEF IInv
<1>2. UNCHANGED <<process, serving, accepted, link, sessions>> /\ FfmpegExits(s)
  BY DEF Ffmpeg
<1>3. PICK d : Well(d) /\ d.stage = capture[s].stage /\ Becomes(s, d)
  BY <1>1, <1>2, FfmpegMoves DEF Replaying
<1>4. handler \in [Sessions -> Steps] /\ handler' = handler
  BY <1>1, <1>2 DEF TypeOK, Steps, sessions
<1>5. handler' = [handler EXCEPT ![s] = handler[s]]
  BY <1>4
<1>6. Busy(d) => handler[s] = "replay"
  BY <1>1, <1>3 DEF Replaying, Busy
<1>7. capture' \in [Sessions -> Captures] /\ Replaying'
  BY <1>1, <1>3, <1>5, <1>6, ReplayMoves
<1>8. /\ cli' = cli /\ code' = code /\ config' = config /\ server' = server
      /\ cut' = cut /\ stopped' = stopped /\ stops' = stops
      /\ accepted' = accepted /\ link' = link /\ outcome' = outcome
      /\ choice' = choice /\ ack' = ack /\ traces' = traces
  BY <1>2 DEF process, serving, sessions
<1>9. TypeOK'
  BY <1>1, <1>4, <1>7, <1>8 DEF TypeOK, CaptureTypeOK
<1>10. Serving'
  BY <1>1, <1>4, <1>8 DEF Serving
<1>11. Selecting'
  BY <1>1, <1>4, <1>8 DEF Selecting, Told
<1> QED  BY <1>7, <1>9, <1>10, <1>11 DEF IInv

-----------------------------------------------------------------------------
(* The CLI, stop() and the connections *)

\* What does not touch a handler leaves the replay phases and the choices be.
LEMMA SessionsStay ==
  ASSUME IInv, UNCHANGED <<config, sessions, capture>>
  PROVE  Replaying' /\ Selecting' /\ CaptureTypeOK'
<1>1. /\ config' = config /\ handler' = handler /\ choice' = choice /\ ack' = ack
      /\ traces' = traces /\ capture' = capture
  BY DEF sessions
<1>2. TypeOK /\ Replaying /\ Selecting
  BY DEF IInv
<1>3. Replaying'
  BY <1>1, <1>2 DEF Replaying
<1>4. Selecting'
  BY <1>1, <1>2 DEF Selecting, Told
<1>5. CaptureTypeOK'
  BY <1>1, <1>2 DEF TypeOK, CaptureTypeOK
<1> QED  BY <1>3, <1>4, <1>5

LEMMA ResolveTypes ==
  ASSUME NEW doc \in Configs, NEW flags \in Flags
  PROVE  Resolve(doc, flags) \in Configs
<1> DEFINE m == [p \in Players |-> Override(flags.mapping[p], doc.mapping[p])]
           r == IF flags.replay = "none" THEN doc.replay ELSE flags.replay = "on"
           d == [doc EXCEPT !.mapping = m]
<1>1. m \in [Players -> Players \cup {"spare", "undefined"}]
  BY DEF Configs, Flags, Override
<1>2. r \in BOOLEAN
  BY DEF Configs
<1>3. Resolve(doc, flags) = [d EXCEPT !.replay = r]
  BY DEF Resolve, Configs
<1> HIDE DEF m, r
<1>4. d \in Configs
  BY <1>1 DEF Configs
<1> HIDE DEF d
<1>5. [d EXCEPT !.replay = r] \in Configs
  BY <1>2, <1>4 DEF Configs
<1> QED  BY <1>3, <1>5

LEMMA StartKeeps ==
  ASSUME IInv, Start
  PROVE  IInv'
<1>1. TypeOK /\ Serving /\ Replaying /\ Selecting /\ cli = "starting"
  BY DEF IInv, Start
<1>2. PICK doc \in Documents, flags \in Overrides :
        /\ config' = Resolve(doc, flags)
        /\ \/ /\ ~ConfigOK(config') /\ Exit(2) /\ UNCHANGED serving
           \/ /\ ConfigOK(config') /\ Exit(1) /\ UNCHANGED serving
           \/ /\ ConfigOK(config') /\ AdaptersOK(config')
              /\ cli' = "serving" /\ server' = "open" /\ stopped' = FALSE
              /\ UNCHANGED <<code, cut, stops>>
  BY DEF Start
<1>3. /\ accepted' = accepted /\ link' = link /\ handler' = handler
      /\ outcome' = outcome /\ choice' = choice /\ ack' = ack
      /\ traces' = traces /\ capture' = capture
  BY DEF Start, sessions
<1>4. config' \in Configs
  BY <1>2, LifecycleAssumption, ResolveTypes
<1>5. server = "none" /\ ~cut /\ \A s \in Sessions : handler[s] = "none"
  BY <1>1 DEF Serving
<1>6. /\ cli' \in {"serving", "exited"} /\ code' \in 0..2 /\ cut' = cut
      /\ server' \in {"none", "open"} /\ stops' = stops /\ stopped' \in BOOLEAN
      /\ cli' = "exited" \/ stopped' => server' = "none"
  <2>1. stopped \in BOOLEAN /\ code \in 0..2
    BY <1>1 DEF TypeOK
  <2>2. CASE (Exit(1) \/ Exit(2)) /\ UNCHANGED serving
    <3>1. /\ cli' = "exited" /\ code' \in 1..2 /\ server' = "none" /\ cut' = cut
          /\ stopped' = stopped /\ stops' = stops
      BY <2>2, <1>5 DEF Exit, serving
    <3> QED  BY <2>1, <3>1
  <2>3. CASE /\ cli' = "serving" /\ server' = "open" /\ stopped' = FALSE
             /\ UNCHANGED <<code, cut, stops>>
    BY <2>1, <2>3
  <2> QED  BY <1>2, <2>2, <2>3
<1>7. TypeOK'
  BY <1>1, <1>3, <1>4, <1>6 DEF TypeOK, CaptureTypeOK
<1>8. Serving'
  BY <1>1, <1>3, <1>5, <1>6 DEF Serving
<1>9. Replaying'
  BY <1>1, <1>3 DEF Replaying
<1>10. Selecting'
  BY <1>1, <1>3, <1>5 DEF Selecting, Told
<1> QED  BY <1>7, <1>8, <1>9, <1>10 DEF IInv

LEMMA LeaveServeForeverKeeps ==
  ASSUME IInv, NEW interrupted, LeaveServeForever(interrupted)
  PROVE  IInv'
<1>1. TypeOK /\ Serving /\ cli = "serving"
  BY DEF IInv, LeaveServeForever
<1>2. UNCHANGED <<config, cut, stopped, accepted, link, sessions, capture>>
  BY DEF LeaveServeForever
<1>3. Replaying' /\ Selecting' /\ CaptureTypeOK'
  BY <1>2, SessionsStay
<1>4. /\ server' \in {server, "closing"} /\ cli' \in {"exited", "stopping"}
      /\ server' = "none" <=> server = "none"
      /\ cli' = "exited" => server = "none"
      /\ code' \in 0..2 /\ stops' \subseteq {"task", "cli"}
  <2>1. stops \subseteq {"task", "cli"} /\ code \in 0..2
    BY <1>1 DEF TypeOK
  <2>2. CASE server = "none"
    <3>1. cli' = "exited" /\ code' = 0 /\ server' = server /\ stops' = stops
      BY <2>2 DEF LeaveServeForever, Exit
    <3> QED  BY <2>1, <2>2, <3>1
  <2>3. CASE server # "none"
    <3>1. /\ cli' = "stopping" /\ server' = "closing" /\ stops' = stops \cup {"cli"}
          /\ code' = code
      BY <2>3 DEF LeaveServeForever
    <3> QED  BY <2>1, <2>3, <3>1
  <2> QED  BY <2>2, <2>3
<1>5. handler' = handler /\ outcome' = outcome
  BY <1>2 DEF sessions
<1>6. TypeOK'
  BY <1>1, <1>2, <1>3, <1>4, <1>5 DEF TypeOK
<1>7. Serving'
  BY <1>1, <1>2, <1>4, <1>5 DEF Serving
<1> QED  BY <1>3, <1>6, <1>7 DEF IInv

LEMMA StopKeeps ==
  ASSUME IInv, Stop
  PROVE  IInv'
<1>1. TypeOK /\ Serving
  BY DEF IInv
<1>2. CASE CloseConnections
  <2>1. UNCHANGED <<process, server, stopped, stops, accepted, sessions, capture>>
    BY <1>2 DEF CloseConnections
  <2>2. server = "closing" /\ cut'
    BY <1>2 DEF CloseConnections
  <2>3. PICK silent \in SUBSET {s \in Sessions : link[s] = "open"} :
          link' = [s \in Sessions |-> IF link[s] # "open" THEN link[s]
                                      ELSE IF s \in silent THEN "lost" ELSE "closed"]
    BY <1>2 DEF CloseConnections
  <2>4. link' \in [Sessions -> {"none", "open", "closed", "lost"}]
    BY <1>1, <2>3 DEF TypeOK
  <2>5. cut' \in BOOLEAN
    BY <1>2 DEF CloseConnections
  <2>6. /\ cli' = cli /\ code' = code /\ config' = config
        /\ handler' = handler /\ outcome' = outcome
    BY <2>1 DEF process, sessions
  <2>7. Replaying' /\ Selecting' /\ CaptureTypeOK'
    <3>1. UNCHANGED <<config, sessions, capture>>  BY <2>1, <2>6
    <3> QED  BY <3>1, SessionsStay
  <2>8. TypeOK'
    BY <1>1, <2>1, <2>4, <2>5, <2>6, <2>7 DEF TypeOK
  <2>9. cli # "starting"
    BY <1>1, <2>2 DEF Serving
  <2>10. Serving'
    BY <1>1, <2>1, <2>2, <2>6, <2>9 DEF Serving
  <2> QED  BY <2>7, <2>8, <2>10 DEF IInv
<1>3. ASSUME NEW caller \in {"task", "cli"}, StopReturns(caller)
      PROVE  IInv'
  <2>1. UNCHANGED <<config, cut, accepted, link, sessions, capture>>
    BY <1>3 DEF StopReturns
  <2>2. \A s \in Sessions : handler[s] \in {"none", "done"}
    BY <1>3 DEF StopReturns, CanStop, Handling
  <2>3. server' = "none" /\ stopped' /\ stopped' \in BOOLEAN
    BY <1>3 DEF StopReturns
  <2>4. cli' \in {cli, "exited"} /\ code' \in 0..2 /\ stops' \subseteq {"task", "cli"}
    BY <1>1, <1>3 DEF StopReturns, Exit, TypeOK
  <2>5. Replaying' /\ Selecting' /\ CaptureTypeOK'
    BY <2>1, SessionsStay
  <2>6. handler' = handler /\ outcome' = outcome
    BY <2>1 DEF sessions
  <2>7. TypeOK'
    BY <1>1, <2>1, <2>3, <2>4, <2>5, <2>6 DEF TypeOK
  <2>8. Serving'
    BY <1>1, <2>1, <2>2, <2>3, <2>4, <2>6 DEF Serving
  <2> QED  BY <2>5, <2>7, <2>8 DEF IInv
<1> QED  BY <1>2, <1>3 DEF Stop

LEMMA AcceptKeeps ==
  ASSUME IInv, Accept
  PROVE  IInv'
<1>1. TypeOK /\ Serving /\ Replaying /\ Selecting
  BY DEF IInv
<1> DEFINE s == accepted + 1
<1>2. /\ accepted \in 0..MaxSessions /\ server = "open" /\ accepted < MaxSessions
      /\ accepted' = s
      /\ link' = [link EXCEPT ![s] = "open"] /\ handler' = [handler EXCEPT ![s] = "hello"]
      /\ UNCHANGED <<process, serving, outcome, choice, ack, traces, capture>>
  BY <1>1 DEF Accept, TypeOK
<1>3. s \in Sessions /\ s > accepted /\ s \in 0..MaxSessions
  BY <1>2, CaptureAssumption DEF Sessions
<1>4. \A t \in Sessions : t > s => t > accepted /\ t # s
  BY <1>2, CaptureAssumption DEF Sessions
<1> HIDE DEF s
<1>5. handler[s] = "none"
  BY <1>1, <1>3 DEF Serving
<1>6. /\ cli' = cli /\ code' = code /\ config' = config /\ server' = server
      /\ cut' = cut /\ stopped' = stopped /\ stops' = stops /\ outcome' = outcome
      /\ choice' = choice /\ ack' = ack /\ traces' = traces /\ capture' = capture
  BY <1>2 DEF process, serving
<1>7. /\ handler' \in [Sessions -> Steps]
      /\ link' \in [Sessions -> {"none", "open", "closed", "lost"}]
      /\ \A t \in Sessions \ {s} : handler'[t] = handler[t]
  BY <1>1, <1>2 DEF TypeOK, Steps
<1>8. capture' \in [Sessions -> Captures] /\ Replaying'
  <2>1. handler[s] # "replay"  BY <1>5
  <2> QED  BY <1>1, <1>2, <1>3, <1>6, <2>1, OthersReplay
<1>9. Selecting'
  <2>1. handler[s] \in {"none", "hello"} /\ "hello" \in {"hello", "choosing", "ack"}
    BY <1>5
  <2>2. "hello" = "ack" => config.characters # "llm_choice"
    OBVIOUS
  <2> QED  BY <1>1, <1>2, <1>3, <1>6, <2>1, <2>2, HelloSelects
<1>10. TypeOK'
  BY <1>1, <1>2, <1>3, <1>6, <1>7, <1>8 DEF TypeOK, Steps, CaptureTypeOK
<1>11. \A t \in Sessions : t > accepted' => handler'[t] = "none"
  BY <1>1, <1>2, <1>4, <1>7 DEF Serving
<1>12. Serving'
  BY <1>1, <1>2, <1>6, <1>11 DEF Serving
<1> QED  BY <1>8, <1>9, <1>10, <1>12 DEF IInv

LEMMA DisconnectKeeps ==
  ASSUME IInv, NEW s \in Sessions, NEW how \in {"closed", "lost"}, Disconnect(s, how)
  PROVE  IInv'
<1>1. TypeOK /\ Serving
  BY DEF IInv
<1>2. UNCHANGED <<process, serving, accepted, sessions, capture>>
  BY DEF Disconnect
<1>3. link' \in [Sessions -> {"none", "open", "closed", "lost"}]
  BY <1>1 DEF Disconnect, TypeOK
<1>4. /\ cli' = cli /\ code' = code /\ config' = config /\ server' = server
      /\ cut' = cut /\ stopped' = stopped /\ stops' = stops /\ accepted' = accepted
      /\ handler' = handler /\ outcome' = outcome
  BY <1>2 DEF process, serving, sessions
<1>5. Replaying' /\ Selecting' /\ CaptureTypeOK'
  <2>1. UNCHANGED <<config, sessions, capture>>  BY <1>2, <1>4
  <2> QED  BY <2>1, SessionsStay
<1>6. TypeOK'
  BY <1>1, <1>3, <1>4, <1>5 DEF TypeOK
<1>7. Serving'
  BY <1>1, <1>4 DEF Serving
<1> QED  BY <1>5, <1>6, <1>7 DEF IInv

-----------------------------------------------------------------------------
(* The theorems *)

LEMMA VarsStay ==
  ASSUME IInv, UNCHANGED vars
  PROVE  IInv'
<1>1. /\ cli' = cli /\ code' = code /\ config' = config /\ server' = server
      /\ cut' = cut /\ stopped' = stopped /\ stops' = stops
      /\ accepted' = accepted /\ link' = link /\ outcome' = outcome
      /\ handler' = handler /\ UNCHANGED <<config, sessions, capture>>
  BY DEF vars, process, serving, sessions
<1>2. TypeOK /\ Serving
  BY DEF IInv
<1>3. Replaying' /\ Selecting' /\ CaptureTypeOK'
  BY <1>1, SessionsStay
<1>4. TypeOK'
  BY <1>1, <1>2, <1>3 DEF TypeOK
<1>5. Serving'
  BY <1>1, <1>2 DEF Serving
<1> QED  BY <1>3, <1>4, <1>5 DEF IInv

\* Every step of the daemon keeps the inductive invariant.
LEMMA NextKeeps ==
  ASSUME IInv, [Next]_vars
  PROVE  IInv'
<1>1. CASE Start
  BY <1>1, StartKeeps
<1>2. CASE LeaveServeForever(TRUE) \/ LeaveServeForever(FALSE)
  BY <1>2, LeaveServeForeverKeeps
<1>3. CASE Stop
  BY <1>3, StopKeeps
<1>4. CASE Accept
  BY <1>4, AcceptKeeps
<1>5. ASSUME NEW s \in Sessions, Disconnect(s, "closed") \/ Disconnect(s, "lost")
      PROVE  IInv'
  BY <1>5, DisconnectKeeps
<1>6. ASSUME NEW s \in Sessions, ReadHello(s)
      PROVE  IInv'
  BY <1>6, ReadHelloKeeps
<1>7. ASSUME NEW s \in Sessions, Proceed(s)
      PROVE  IInv'
  BY <1>7, ReadHelloKeeps, ChooseKeeps, SendAckKeeps, SessionEndKeeps, ReplayKeeps
     DEF Proceed
<1>8. ASSUME NEW s \in Sessions,
             BeginMatch(s) \/ MatchEnds(s) \/ LoopFails(s) \/ FinalizeRaises(s)
      PROVE  IInv'
  BY <1>8, BeginMatchKeeps, SessionEndKeeps
<1>9. ASSUME NEW s \in Sessions, Ffmpeg(s)
      PROVE  IInv'
  BY <1>9, FfmpegKeeps
<1>10. CASE UNCHANGED vars
  BY <1>10, VarsStay
<1> QED
  BY <1>1, <1>2, <1>3, <1>4, <1>5, <1>6, <1>7, <1>8, <1>9, <1>10 DEF Next

\* The inductive invariant holds of every run of the daemon.
THEOREM Invariance == Spec => []IInv
<1> QED  BY InitHolds, NextKeeps, PTL DEF Spec

\* The variables of the daemon, and of every replay phase, keep their types.
THEOREM TypeCorrect == Spec => []TypeOK
<1>1. IInv => TypeOK
  BY DEF IInv
<1> QED  BY <1>1, Invariance, PTL

\* Once run_server has let go of its server (stop() has returned, or the
\* process is over) no handler is at work, and no replay phase is either.
THEOREM QuietWhenStopped == Spec => []StoppedIsQuiet
<1>1. IInv => StoppedIsQuiet
  BY DEF IInv, Serving, Replaying, Busy, StoppedIsQuiet, Handling
<1> QED  BY <1>1, Invariance, PTL

\* Of a replay phase that is over what was recorded was asked for and the
\* replay file named last was pulled, except on the three ways out on which
\* the code does not stop the recording, or has forgotten it.
THEOREM RecordingIsKept == Spec => []CaptureIsKept
<1>1. IInv => CaptureIsKept
  <2> SUFFICES ASSUME IInv, NEW s \in Sessions
      PROVE  LET c == capture[s]
             IN  /\ c.stage = "over" =>
                      /\ Recorded(s) => c.asked \/ c.exit \in {"closed", "raised", "cut"}
                      /\ c.pulled = c.path
                 /\ c.video = "removed" => c.asked \/ c.exit = "cut"
    BY DEF CaptureIsKept
  <2>1. Phase(capture[s])
    BY DEF IInv, Replaying, Well
  <2> QED  BY <2>1 DEF Phase, Abandoned, AllPulled, Recorded
<1> QED  BY <1>1, Invariance, PTL

\* What the traces of a match tell of the choice of characters is what the
\* hello_ack told the mod, and both are legal, whatever the providers said.
THEOREM AckIsTold == Spec => []TracesTellTheAck
<1>1. IInv => TracesTellTheAck
  <2> SUFFICES ASSUME IInv, NEW s \in Sessions,
                      traces[s] # <<>>, config.characters = "llm_choice",
                      NEW p \in Players
      PROVE  /\ traces[s][p].character = ack[s][p] /\ ack[s][p] \in Characters
             /\ traces[s][p].fallback => ack[s][p] = Seeded[p]
    BY DEF TracesTellTheAck
  <2>1. /\ traces[s] = choice[s] /\ ack[s] = Told(s)
        /\ Legal(p, choice[s][p])
    BY DEF IInv, Selecting
  <2>2. ack[s][p] = choice[s][p].character
    BY <2>1 DEF Told
  <2> QED  BY <2>1, <2>2 DEF Legal
<1> QED  BY <1>1, Invariance, PTL

\* An open server is closed by the CLI or by the handler of a session served
\* to its end, and by no other step.
THEOREM ServesOn == Spec => ServesUntilServed
<1> DEFINE Closes == server = "open" /\ server' # "open"
           Reason == cli' = "stopping" \/ \E s \in Sessions : outcome'[s] = "served"
<1>1. ASSUME IInv, Next, Closes  PROVE Reason
  <2>1. TypeOK /\ Serving
    BY <1>1 DEF IInv
  <2>2. server' # server /\ ~(UNCHANGED serving)
    BY <1>1 DEF serving
  <2>3. ASSUME NEW s \in Sessions, Leave(s)  PROVE Reason
    <3>1. outcome'[s] = "served"
      BY <2>1, <2>3 DEF Leave, Return, TypeOK
    <3> QED  BY <3>1
  <2>4. CASE Start
    BY <2>1, <2>4, <1>1 DEF Start, Serving
  <2>5. CASE LeaveServeForever(TRUE) \/ LeaveServeForever(FALSE)
    BY <2>5, <1>1 DEF LeaveServeForever
  <2>6. CASE Stop
    BY <2>1, <2>6, <1>1 DEF Stop, StopReturns, CanStop, CloseConnections, Serving
  <2>7. CASE Accept
    BY <2>2, <2>7 DEF Accept
  <2>8. ASSUME NEW s \in Sessions, Disconnect(s, "closed") \/ Disconnect(s, "lost")
        PROVE  Reason
    BY <2>2, <2>8 DEF Disconnect
  <2>9. ASSUME NEW s \in Sessions,
               ReadHello(s) \/ HelloMissing(s) \/ SendAck(s) \/ BeginMatch(s)
                 \/ FinalizeRaises(s) \/ Ffmpeg(s) \/ \E p \in Players : ChooseCharacter(s, p)
        PROVE  Reason
    BY <2>2, <2>9 DEF ReadHello, HelloMissing, SendAck, EndHandshake, BeginMatch,
                      FinalizeRaises, Ffmpeg, ChooseCharacter
  <2>10. ASSUME NEW s \in Sessions,
                MatchEnds(s) \/ ConnectionEnds(s) \/ LoopFails(s) \/ Replay(s)
         PROVE  Reason
    BY <2>2, <2>3, <2>10 DEF MatchEnds, ConnectionEnds, LoopFails, Replay
  <2>11. CASE UNCHANGED vars
    BY <2>2, <2>11 DEF vars
  <2> QED
    BY <1>1, <2>4, <2>5, <2>6, <2>7, <2>8, <2>9, <2>10, <2>11 DEF Next, Proceed
<1>2. ASSUME IInv, [Next]_vars
      PROVE  [Closes => Reason]_vars
  BY <1>1, <1>2
<1> QED  BY <1>2, Invariance, PTL DEF Spec, ServesUntilServed
=============================================================================
