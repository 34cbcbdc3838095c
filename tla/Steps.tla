-------------------------------- MODULE Steps --------------------------------
(***************************************************************************)
(* A vocabulary for functions that make files of other files: what they open *)
(* and close, what they write, which of their steps may throw, and who       *)
(* catches it.  A function is a sequence of steps; a loop is one pass of its *)
(* body.  Handles are GDAL datasets and options, streams, pipes, files in    *)
(* GDAL's memory and directories that an object removes when its block ends. *)
(***************************************************************************)
EXTENDS Integers, Sequences

\* closes: the handles that are closed when the step throws or returns (or that
\* a "close" closes); skip: how far another way out of the step leads; handler:
\* how far its catch block is, 0 if nothing in the function catches.
Step(do, name) ==
  [do |-> do, on |-> name, to |-> "", closes |-> {}, skip |-> 1, handler |-> 0]
One(do, name) == <<Step(do, name)>>
Throwing(do, name, closes) == <<[Step(do, name) EXCEPT !.closes = closes]>>
Leading(do, name, skip) == <<[Step(do, name) EXCEPT !.skip = skip]>>
Naming(do, f, g) == <<[Step(do, f) EXCEPT !.to = g]>>

\* Handles: a handle is opened or the step throws; taken without fail; closed.
Open(h) == One("open", h)
OpenOr(h, closes) == Throwing("open", h, closes)
Take(h) == One("take", h)
Close(handles) == Throwing("close", "", handles)

\* Checks that may throw, and statements that always do.
May == One("may", "")
MayOr(closes) == Throwing("may", "", closes)
Fail == One("fail", "")
FailOr(closes) == Throwing("fail", "", closes)
Return == One("return", "")
ReturnOr(closes) == Throwing("return", "", closes)

\* Files: Begin truncates or creates, Finish completes or throws, Settle
\* completes or leaves it as it is, Drop removes or throws, Shed removes if it
\* can, Move renames or throws; Aside keeps what an earlier run published; Spoil
\* is of a file that is complete but was made of what was not.
Begin(f) == One("begin", f)
Finish(f, closes) == Throwing("finish", f, closes)
Settle(f) == One("settle", f)
Drop(f) == One("drop", f)
Shed(f) == One("shed", f)
Move(f, g) == Naming("move", f, g)
Aside(f, g) == Naming("aside", f, g)
Spoil(f) == One("begin", f)
Written(f, closes) == Begin(f) \o Finish(f, closes)

\* Ways through.
Either(a, b) ==
  Leading("fork", "", Len(a) + 2) \o a \o Leading("jump", "", Len(b) + 1) \o b
Optional(a) == Leading("fork", "", Len(a) + 1) \o a
IfThere(f, a) == Leading("there", f, Len(a) + 1) \o a
IfMissing(f, a) == Leading("missing", f, Len(a) + 1) \o a

\* try { body } catch { failed }; Attempt also has what follows where body does
\* not throw and is not tried itself; Rethrows lets the exception go on.
Attempt(body, succeeded, failed) ==
  [i \in 1 .. Len(body) |->
     IF body[i].handler = 0
     THEN [body[i] EXCEPT !.handler = Len(body) + Len(succeeded) + 2 - i]
     ELSE body[i]]
  \o succeeded \o Leading("jump", "", Len(failed) + 1) \o failed
Try(body, failed) == Attempt(body, <<>>, failed)
Rethrows(body, failed) == Try(body, failed \o Fail)

\* Objects that close what they hold however their block is left.
MayThrow(s) == s.do \in {"open", "may", "fail", "finish", "drop", "move", "aside"}
Guarded(handles, body) ==
  [i \in 1 .. Len(body) |->
     IF body[i].do = "return" \/ (MayThrow(body[i]) /\ body[i].handler = 0)
     THEN [body[i] EXCEPT !.closes = @ \union handles]
     ELSE body[i]]
  \o Close(handles)

\* A function that is called: where it returns the caller goes on.
Call(body) ==
  [i \in 1 .. Len(body) |->
     IF body[i].do = "return"
     THEN [body[i] EXCEPT !.do = "leave", !.skip = Len(body) + 1 - i]
     ELSE body[i]]

\* A ThreadLock on a path, and the block that it guards.
Locking(k) == One("find", k) \o One("count", k) \o One("acquire", k)
Unlocking == One("unlock", "") \o One("load", "") \o One("forget", "")
Locked(k, body) == Locking(k) \o Rethrows(body, Unlocking) \o Unlocking

\* The size of GDAL's cache, raised for the time of a build and put back.
Raise == One("note", "") \o One("raise", "")
Restore == One("restore", "")

Kinds == {"open", "take", "close", "may", "fail", "return", "leave", "begin", "finish", "settle",
          "drop", "shed", "move", "aside", "fork", "jump", "there", "missing",
          "find", "count", "acquire", "unlock", "load", "forget", "note", "raise", "restore"}
==============================================================================
