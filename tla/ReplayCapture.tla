--------------------------- MODULE ReplayCapture ---------------------------
(***************************************************************************)
(* The replay phase of a session: the mod tells of the replay it saved and *)
(* of the start and the end of its playback, the daemon records that with  *)
(* an ffmpeg in a virtual machine and pulls the video and the replay file. *)
(* An action is what runs between two awaits.  Of every session there is   *)
(* one ReplayCaptureSession (capture) and one connection (link); the       *)
(* phases of several sessions can overlap.                                 *)
(*                                                                         *)
(* No clock is needed: asyncio.timeout(120) may strike at any await inside *)
(* its block, for the mod may take any time before it says something.      *)
(***************************************************************************)
EXTENDS Naturals

CONSTANTS
  MaxSessions,      \* bound on the connections accepted
  ReplayFiles,      \* the paths of .replay files in the machine
  NoFile,           \* None
  MaxReplayEvents   \* bound on the events before the one that ends the phase

Sessions == 1..MaxSessions

ASSUME CaptureAssumption ==
  /\ MaxSessions \in Nat /\ MaxReplayEvents \in Nat
  /\ NoFile \notin ReplayFiles

VARIABLES
  link,     \* per session: "none", "open", "closed" (cleanly), "lost"
  capture   \* per session: its replay phase

(***************************************************************************)
(* armed    inside asyncio.timeout                                         *)
(* process  _process is set                                                *)
(* ffmpeg   what the process does, in the machine                          *)
(* video    where the recording is: nowhere, in the machine, in the run    *)
(*          directory, removed from the machine without having been pulled *)
(* asked    a pull of the video was begun and not cut off                  *)
(* path     effective_replay_path, pulled: pulled_replay_path              *)
(* exit     what ended the phase                                           *)
(***************************************************************************)
Stages == {"off", "pullFirst", "receive", "pullSaved", "checkOrb", "spawn",
           "waitFfmpeg", "settle", "pullVideo", "pullLast", "cleanup", "over"}
Exits  == {"none", "ended", "timeout", "cut", "lost", "closed", "raised"}

Captures == [stage : Stages, armed : BOOLEAN, process : BOOLEAN,
             ffmpeg : {"none", "running", "exited"},
             video : {"none", "machine", "local", "removed"}, asked : BOOLEAN,
             path : ReplayFiles \cup {NoFile}, pulled : ReplayFiles \cup {NoFile},
             heard : 0..MaxReplayEvents, exit : Exits]

NoCapture == [stage |-> "off", armed |-> FALSE, process |-> FALSE, ffmpeg |-> "none",
              video |-> "none", asked |-> FALSE, path |-> NoFile, pulled |-> NoFile,
              heard |-> 0, exit |-> "none"]

InitCapture == capture = [s \in Sessions |-> NoCapture]

At(s, stage) == capture[s].stage = stage

\* The phase goes on as c.
Becomes(s, c) == capture' = [capture EXCEPT ![s] = c]

-----------------------------------------------------------------------------
(* What the coroutine does when an await is over *)

\* In the loop over the connection, inside the timeout.
Receive(c) == [c EXCEPT !.stage = "receive", !.armed = TRUE]

\* _handle_replay_capture begins with the path that match_ended has named.
BeginCapture(path) ==
  IF path = NoFile THEN Receive(NoCapture)
  ELSE [NoCapture EXCEPT !.stage = "pullFirst", !.path = path]

\* After the video: the replay file if a newer one was named.
AfterVideo(c) ==
  [c EXCEPT !.stage = IF c.path # NoFile /\ c.path # c.pulled THEN "pullLast"
                      ELSE "cleanup"]

\* stop_recording: wait for ffmpeg, which stops on its own, unless it has.
StopRecording(c) ==
  IF ~c.process THEN AfterVideo(c)
  ELSE IF c.ffmpeg = "running" THEN [c EXCEPT !.stage = "waitFfmpeg"]
  ELSE [c EXCEPT !.stage = "settle", !.process = FALSE]

WasStartedBug(c) == c.process /\ c.ffmpeg = "running"   \* is_recording alone

\* is_recording or was_started: the handle is set, ffmpeg may have exited.
WasStarted(c) == c.process

\* The except clause.
Interrupted(c, exit) ==
  LET d == [c EXCEPT !.armed = FALSE, !.exit = exit]
  IN  IF WasStarted(c) THEN StopRecording(d) ELSE AfterVideo(d)

-----------------------------------------------------------------------------
(* The events of the mod, in any order, and the end of the connection.     *)
(* What came before the connection closed is read before its closure.      *)

Hear(s, c) ==
  /\ At(s, "receive") /\ capture[s].heard < MaxReplayEvents
  /\ Becomes(s, [c EXCEPT !.heard = @ + 1])

\* The phase ends, and with it the count of its events.
Ends(s, c) ==
  Becomes(s, [c EXCEPT !.stage = "over", !.armed = FALSE, !.heard = 0])

ReplaySaved(s, file) ==
  LET c == capture[s]
  IN  Hear(s, IF c.pulled = file THEN [c EXCEPT !.path = file]
              ELSE [c EXCEPT !.path = file, !.stage = "pullSaved"])

\* start_recording refuses while there is a process.
ReplayStarted(s) ==
  LET c == capture[s]
  IN  Hear(s, IF c.process THEN c ELSE [c EXCEPT !.stage = "checkOrb"])

ReplayEnded(s) ==
  /\ At(s, "receive")
  /\ Becomes(s, StopRecording([capture[s] EXCEPT !.exit = "ended"]))

\* append_event raises for an event of another match.
ForeignEvent(s) ==
  At(s, "receive") /\ Ends(s, [capture[s] EXCEPT !.exit = "raised"])

\* A clean closure ends the iteration, and with it the phase: nothing is
\* stopped, pulled or removed.
ReadClosed(s) ==
  /\ At(s, "receive") /\ link[s] = "closed"
  /\ Ends(s, [capture[s] EXCEPT !.exit = "closed"])

ReadLost(s) ==
  /\ At(s, "receive") /\ link[s] = "lost"
  /\ Becomes(s, Interrupted(capture[s], "lost"))

\* The task is cancelled where it awaits.  Once stop_recording has let go of
\* the process nobody remembers that there was a recording.
TimeoutStrikes(s) ==
  /\ capture[s].armed
  /\ Becomes(s, Interrupted(capture[s],
       IF capture[s].stage \in {"settle", "pullVideo"} THEN "cut" ELSE "timeout"))

-----------------------------------------------------------------------------
(* The other awaits.  Each subprocess is given up after a while. *)

PullFirst(s) ==
  LET c == capture[s]
  IN  At(s, "pullFirst") /\ Becomes(s, Receive([c EXCEPT !.pulled = c.path]))

PullSaved(s) ==
  LET c == capture[s]
  IN  At(s, "pullSaved") /\ Becomes(s, Receive([c EXCEPT !.pulled = c.path]))

OrbChecked(s) ==
  /\ At(s, "checkOrb")
  /\ \E stage \in {"spawn", "receive"} : Becomes(s, [capture[s] EXCEPT !.stage = stage])

\* A spawn that is cancelled kills its process.
Spawned(s) ==
  /\ At(s, "spawn")
  /\ \/ Becomes(s, [capture[s] EXCEPT !.stage = "receive", !.process = TRUE,
                                      !.ffmpeg = "running", !.video = "machine"])
     \/ Becomes(s, [capture[s] EXCEPT !.stage = "receive"])

\* By its -t, by a failure of its own, or killed after 180 s of waiting.
FfmpegExits(s) ==
  /\ capture[s].ffmpeg = "running"
  /\ Becomes(s, [capture[s] EXCEPT !.ffmpeg = "exited"])

FfmpegAwaited(s) ==
  /\ At(s, "waitFfmpeg") /\ capture[s].ffmpeg = "exited"
  /\ Becomes(s, StopRecording(capture[s]))

Settled(s) ==
  At(s, "settle") /\ Becomes(s, [capture[s] EXCEPT !.stage = "pullVideo"])

\* orb pull succeeds or not.
VideoPulled(s) ==
  /\ At(s, "pullVideo")
  /\ \E where \in {"machine", "local"} :
       Becomes(s, AfterVideo([capture[s] EXCEPT !.asked = TRUE, !.video = where]))

PullLast(s) ==
  LET c == capture[s]
  IN  At(s, "pullLast") /\ Becomes(s, [c EXCEPT !.pulled = c.path, !.stage = "cleanup"])

\* rm -f in the machine, and the phase is over.
CleanedUp(s) ==
  LET c == capture[s]
  IN  /\ At(s, "cleanup")
      /\ Ends(s, [c EXCEPT !.video = IF @ = "machine" THEN "removed" ELSE @])

Awaited(s) ==
  \/ PullFirst(s) \/ PullSaved(s) \/ OrbChecked(s) \/ Spawned(s)
  \/ FfmpegAwaited(s) \/ Settled(s) \/ VideoPulled(s) \/ PullLast(s) \/ CleanedUp(s)

CaptureStep(s) ==
  \/ \E file \in ReplayFiles : ReplaySaved(s, file)
  \/ ReplayStarted(s) \/ ReplayEnded(s) \/ ForeignEvent(s)
  \/ ReadClosed(s) \/ ReadLost(s)
  \/ Awaited(s) \/ TimeoutStrikes(s)

-----------------------------------------------------------------------------
(* What must hold *)

CaptureTypeOK == capture \in [Sessions -> Captures]

Recorded(s) == capture[s].video # "none"

\* Of a phase that is over the video was asked for if a recording had begun,
\* and the replay file named last, except on the ways out that the code does
\* not care for: a clean closure (also by the server that stops) or an event
\* of another match while it listens, and a timeout that strikes in
\* stop_recording behind the point where the handle is cleared.  And the
\* video is never removed unasked for but on that last one.
CaptureIsKept ==
  \A s \in Sessions :
    LET c == capture[s]
    IN  /\ c.stage = "over" =>
             /\ Recorded(s) => c.asked \/ c.exit \in {"closed", "raised", "cut"}
             /\ c.pulled = c.path
        /\ c.video = "removed" => c.asked \/ c.exit = "cut"
=============================================================================
