---------------------------- MODULE ReplayEngine ----------------------------
(***************************************************************************)
(* ReplayEngine (core/src/event/replay_engine.cpp): replay_segment and     *)
(* replay_directory open a fresh JournalReader and dispatch what it reads, *)
(* marked as replayed, until read_next returns anything but ok.  A program *)
(* may also use a JournalReader directly, with its own opens and closes,   *)
(* and go on calling read_next after an end or an error.                   *)
(***************************************************************************)
EXTENDS JournalReader

VARIABLES
  rpc,         \* where the replay is, or "direct": there is none
  dispatched,  \* history: the records handed to EventDispatcher::dispatch
  replay_stats \* the ReplayStats the call returns

replayVars == <<rpc, dispatched, replay_stats>>
allVars == <<readerVars, replayVars>>

ReplayInit ==
  /\ ReaderInit
  /\ rpc \in {"open", "direct"}
  /\ dispatched = << >>
  /\ replay_stats = [segments |-> 0, events |-> 0, corrupted |-> 0]

(* replay_directory, or replay_segment on one of the files *)
ReplayOpen ==
  /\ rpc = "open"
  /\ OpenDirectory \/ OpenSegment \/ OpenEmptyDirectory
  /\ rpc' = IF result' = "ok" THEN "call" ELSE "failed"
  /\ UNCHANGED <<dispatched, replay_stats>>

ReplayCall ==
  /\ rpc = "call"
  /\ ReadCall
  /\ rpc' = "read"
  /\ UNCHANGED <<dispatched, replay_stats>>

ReplayRead ==
  /\ rpc = "read"
  /\ ReadLoop
  /\ rpc' = IF phase' = "loop" THEN "read"
            ELSE IF result' = "ok" THEN "dispatch" ELSE "finish"
  /\ UNCHANGED <<dispatched, replay_stats>>

ReplayDispatch ==
  /\ rpc = "dispatch"
  /\ dispatched' = Append(dispatched, out[Len(out)])
  /\ replay_stats' = [replay_stats EXCEPT !.events = @ + 1]
  /\ rpc' = "call"
  /\ UNCHANGED readerVars

ReplayFinish ==
  /\ rpc = "finish"
  /\ replay_stats' = [replay_stats EXCEPT !.segments = stats.segments,
                                          !.corrupted = stats.corrupted]
  /\ rpc' = "done"
  /\ UNCHANGED <<readerVars, dispatched>>

ReplayStep ==
  \/ ReplayOpen \/ ReplayCall \/ ReplayRead \/ ReplayDispatch \/ ReplayFinish

DirectStep == rpc = "direct" /\ ReaderNext /\ UNCHANGED replayVars

(* A replay and a read_next run on; nobody has to start them. *)
ReplaySpec ==
  /\ ReplayInit /\ [][ReplayStep \/ DirectStep]_allVars
  /\ WF_allVars(ReplayStep)
  /\ WF_allVars(rpc = "direct" /\ ReadLoop /\ UNCHANGED replayVars)

-----------------------------------------------------------------------------
(* Properties *)

Dispatched == {dispatched[i] : i \in DOMAIN dispatched}

(* A replay of a journal with the writer's record sizes that returns ok    *)
(* has dispatched every record that is not behind a damaged record header, *)
(* and none that journal_reader.h:59 does not promise, each once, in the   *)
(* order of the journal, and its statistics count them.                    *)
ReplayComplete ==
  rpc = "done" /\ OwnSizes =>
    /\ Replayed(Journal) \subseteq Dispatched
    /\ Dispatched \subseteq PromisedRecords(Journal)
    /\ \A i, j \in DOMAIN dispatched :
         i < j => Before(dispatched[i], dispatched[j])
    /\ replay_stats.events = Len(dispatched)
    /\ replay_stats.events = stats.records

(* Every replay ends, and every read_next returns, whatever the damage in  *)
(* the files, as long as no header with a good CRC states the size zero:   *)
(* read_next adds the stated size to its offset without a look at it.      *)
ReplayTerminates ==
  /\ (rpc = "open" /\ SizesPositive) ~> rpc \in {"done", "failed"}
  /\ (phase = "loop" /\ SizesPositive) ~> phase = "idle"
=============================================================================
