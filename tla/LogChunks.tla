----------------------------- MODULE LogChunks ----------------------------
(***************************************************************************)
(* How flokbn reads a log file (logparser/parser.go): readers find the     *)
(* lines and send them in batches over linesChan; parsers turn a batch of  *)
(* lines into a batch of requests and send it over resultsChan; a          *)
(* collector gathers those.  A large file is read by several readers, a    *)
(* chunk at a time; a smaller one by a single scanner.                     *)
(*                                                                         *)
(* A request is represented by the line it was parsed from.  ParseFile and *)
(* ParseFileIPs have the same structure, and both are modelled: a line     *)
(* without an address gives a request with address zero in the first and   *)
(* counts as invalid in the second.                                        *)
(***************************************************************************)
EXTENDS LogLines, Bags

CONSTANTS
  Files,        (* Contents the file may have.                             *)
  ChunkSizes,   (* 64 MB in the code; tests use others.                    *)
  Readers,      (* Chunk readers, at most 8.                               *)
  Parsers,      (* Parser workers.                                         *)
  ChanCap,      (* Capacity of linesChan and of resultsChan.               *)
  BatchSize,    (* parseBatchSize, 1024.                                   *)
  MaxFailures   (* Bound: failing reads.                                   *)

ASSUME ChunksAssumption ==
  /\ \A f \in Files : f \in Seq(Range(f))
  /\ ChunkSizes \cup {ChanCap, BatchSize} \subseteq Nat \ {0}
  /\ MaxFailures \in Nat

VARIABLES
  file,
  path,         (* "stream" or "chunks".                                   *)
  jobs,         (* chunkJobs; the scanner's only job is the whole file.    *)
  reader,       (* Lines a reader has yet to send, and the start of a line *)
                (* it has yet to recover.                                  *)
  linesChan,
  parser,       (* Batch a parser has parsed and not yet sent.             *)
  resultsChan,
  requests,
  readErr,      (* The first error: "none", "read" or "too long".          *)
  phase,        (* What the calling goroutine waits for.                   *)
  answer,       (* What the call returns.                                  *)
  failures

readVars == <<file, path, jobs, reader, linesChan, parser, resultsChan, requests,
              readErr, phase, answer, failures>>
fileVars == <<file, path>>
parseVars == <<parser, resultsChan, requests>>

Pending == [kind |-> "pending"]
Error == [kind |-> "error"]
Requests(bag) == [kind |-> "requests", requests |-> bag]
Nothing == [lines |-> {}, tail |-> {}]

(* The path depends on the size of the file.  In the model both are taken  *)
(* with every file, as no file of its size would be chunked.               *)
ReadInit ==
  /\ file \in Files
  /\ path \in {"stream", "chunks"}
  /\ \E size \in ChunkSizes :
       jobs = Jobs(file, IF path = "chunks" THEN size ELSE Len(file) + 1)
  /\ reader = [r \in Readers |-> Nothing]
  /\ linesChan = <<>>
  /\ parser = [p \in Parsers |-> {}]
  /\ resultsChan = <<>>
  /\ requests = EmptyBag
  /\ readErr = "none"
  /\ phase = "read"
  /\ answer = Pending
  /\ failures = 0

----------------------------------------------------------------------------
(* Readers.                                                                *)

Idle(r) == reader[r] = Nothing

(* The next one in chunkJobs.                                              *)
NextJob(job) == job \in jobs /\ \A other \in jobs : job.first <= other.first

(* chunkErrCapture: only the first error is kept.                          *)
FirstError(e) == IF readErr = "none" THEN e ELSE readErr

ReadChunk(r) ==
  /\ path = "chunks"
  /\ Idle(r)
  /\ \E job \in jobs :
       /\ NextJob(job)
       /\ jobs' = jobs \ {job}
       /\ reader' = [reader EXCEPT
            ![r] = [lines |-> ChunkLines(file, job), tail |-> Unfinished(file, job)]]
  /\ UNCHANGED <<fileVars, linesChan, parseVars, readErr, phase, answer,
                 failures>>

Scan(r) ==
  /\ path = "stream"
  /\ Idle(r)
  /\ jobs # {}
  /\ jobs' = {}
  /\ reader' = [reader EXCEPT ![r] = [lines |-> Scanned(file), tail |-> {}]]
  /\ readErr' = IF Scannable(file) = LineStarts(file)
                THEN readErr ELSE FirstError("too long")
  /\ UNCHANGED <<fileVars, linesChan, parseVars, phase, answer, failures>>

(* A failed chunk is given up; a scanner has passed some lines on.         *)
GotBefore ==
  IF path = "chunks" THEN {{}}
  ELSE {{t \in Scanned(file) : t.from <= n} : n \in 0..Len(file)}

ReadError == FirstError("read")

ReadFails(r) ==
  /\ failures < MaxFailures
  /\ Idle(r)
  /\ \E job \in jobs, got \in GotBefore :
       /\ NextJob(job)
       /\ jobs' = jobs \ {job}
       /\ reader' = [reader EXCEPT ![r] = [lines |-> got, tail |-> {}]]
  /\ readErr' = ReadError
  /\ failures' = failures + 1
  /\ UNCHANGED <<fileVars, linesChan, parseVars, phase, answer>>

(* The last, smaller batch waits for the line to recover.                  *)
BatchReady(r) ==
  \/ Cardinality(reader[r].lines) >= BatchSize
  \/ reader[r].lines # {} /\ reader[r].tail = {}

SendBatch(r) ==
  /\ BatchReady(r)
  /\ Len(linesChan) < ChanCap
  /\ \E batch \in SUBSET reader[r].lines :
       /\ Cardinality(batch) = Least(BatchSize, Cardinality(reader[r].lines))
       /\ \A t \in batch, u \in reader[r].lines \ batch : t.from < u.from
       /\ linesChan' = Append(linesChan, batch)
       /\ reader' = [reader EXCEPT
            ![r] = [lines |-> reader[r].lines \ batch, tail |-> reader[r].tail]]
  /\ UNCHANGED <<fileVars, jobs, parseVars, readErr, phase, answer, failures>>

Recover(r) ==
  /\ Cardinality(reader[r].lines) < BatchSize
  /\ \E s \in reader[r].tail :
       reader' = [reader EXCEPT
         ![r] = [lines |-> reader[r].lines \cup Recovered(file, s), tail |-> {}]]
  /\ UNCHANGED <<fileVars, jobs, linesChan, parseVars, readErr, phase,
                 answer, failures>>

RecoverFails(r) ==
  /\ failures < MaxFailures
  /\ Cardinality(reader[r].lines) < BatchSize
  /\ reader[r].tail # {}
  /\ reader' = [reader EXCEPT ![r] = [lines |-> reader[r].lines, tail |-> {}]]
  /\ readErr' = ReadError
  /\ failures' = failures + 1
  /\ UNCHANGED <<fileVars, jobs, linesChan, parseVars, phase, answer>>

----------------------------------------------------------------------------
(* Parsers and the collector.                                              *)

Parse(p) ==
  /\ parser[p] = {}
  /\ linesChan # <<>>
  /\ parser' = [parser EXCEPT ![p] = Head(linesChan)]
  /\ linesChan' = Tail(linesChan)
  /\ UNCHANGED <<fileVars, jobs, reader, resultsChan, requests, readErr, phase,
                 answer, failures>>

SendResults(p) ==
  /\ parser[p] # {}
  /\ Len(resultsChan) < ChanCap
  /\ resultsChan' = Append(resultsChan, parser[p])
  /\ parser' = [parser EXCEPT ![p] = {}]
  /\ UNCHANGED <<fileVars, jobs, reader, linesChan, requests, readErr, phase,
                 answer, failures>>

SlipCollectLate == phase = "collect" /\ resultsChan # <<>>
HasResults == resultsChan # <<>>

Collect ==
  /\ HasResults
  /\ requests' = requests (+) SetToBag(Head(resultsChan))
  /\ resultsChan' = Tail(resultsChan)
  /\ UNCHANGED <<fileVars, jobs, reader, linesChan, parser, readErr, phase,
                 answer, failures>>

----------------------------------------------------------------------------
(* The calling goroutine waits for the readers and closes linesChan, waits *)
(* for the parsers and closes resultsChan, waits for the collector.        *)

CloseLines ==
  /\ phase = "read"
  /\ jobs = {}
  /\ \A r \in Readers : Idle(r)
  /\ phase' = "parse"
  /\ UNCHANGED <<fileVars, jobs, reader, linesChan, parseVars, readErr,
                 answer, failures>>

CloseResults ==
  /\ phase = "parse"
  /\ linesChan = <<>>
  /\ \A p \in Parsers : parser[p] = {}
  /\ phase' = "collect"
  /\ UNCHANGED <<fileVars, jobs, reader, linesChan, parseVars, readErr,
                 answer, failures>>

Return ==
  /\ phase = "collect"
  /\ resultsChan = <<>>
  /\ phase' = "returned"
  /\ answer' = IF readErr = "none" THEN Requests(requests) ELSE Error
  /\ UNCHANGED <<fileVars, jobs, reader, linesChan, parseVars, readErr,
                 failures>>

ReadNext ==
  \/ \E r \in Readers :
       \/ ReadChunk(r)
       \/ Scan(r)
       \/ ReadFails(r)
       \/ SendBatch(r)
       \/ Recover(r)
       \/ RecoverFails(r)
  \/ \E p \in Parsers : Parse(p) \/ SendResults(p)
  \/ Collect
  \/ CloseLines
  \/ CloseResults
  \/ Return

ReadSpec == ReadInit /\ [][ReadNext]_readVars

(* Every goroutine is scheduled; none stops for good while it can go on.   *)
FairReadSpec == ReadSpec /\ WF_readVars(ReadNext)

----------------------------------------------------------------------------
(* Properties                                                              *)

Contract == INSTANCE LogParse WITH failed <- readErr = "read", outcome <- answer

(* Whatever the chunks, the batches and the order in which goroutines run, *)
(* a call returns each line of the file once, or an error if any read      *)
(* failed, and never a part of the file (the ownership rule of             *)
(* readChunkBatched, recoverLongLine and the check of readErr at the end). *)
ImplementsParse == Contract!Spec

(* The call returns: with its channels full, after a failed read, or with  *)
(* readers that find nothing (the shutdown sequence of the parse calls).   *)
ParseReturns == <>(answer # Pending)

=============================================================================
