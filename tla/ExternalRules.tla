--------------------------- MODULE ExternalRules ---------------------------
(***************************************************************************)
(* Programs that are asked for diagnostics: started one after the other,   *)
(* each with a deadline, its answer read from a pipe that whoever inherits *)
(* it keeps open (pkg/externalrule/run.go, internal/external/external.go). *)
(*                                                                         *)
(* An answer is written in chunks.  A program may stop anywhere, fail, go  *)
(* on for ever, or leave a child behind that holds its output.             *)
(***************************************************************************)
EXTENDS Integers, Sequences

CONSTANTS
    Answers,  \* what programs write: size in chunks, form, version, diagnostics
    Lengths,  \* the files of the request and their lengths
    Capacity, \* of the pipe, in chunks
    Limit     \* of an answer, in chunks (8 MiB)

\* Diagnostics that answers have.
Diagnostics == UNION {{a.diagnostics[k] : k \in DOMAIN a.diagnostics} : a \in Answers}

ASSUME ExternalAssumption ==
    \A a \in Answers : a.size \in Nat /\ a.diagnostics \in Seq(Diagnostics)

VARIABLES
    programs, \* how many are configured
    nth,      \* the one that runs
    process,  \* "none", "running", "exited" or "reaped"
    code,     \* how it ended: "ok", "error" or "killed"
    child,    \* someone else holds the output
    answer,   \* what the program is about to write
    written, pipe, buffer, \* chunks of it: written, on the way, received
    foreign,  \* a child wrote into the output
    expired,  \* the deadline passed before the process was reaped
    given,    \* history: the answers the programs completed, with how they ended
    found,    \* the diagnostics so far
    outcome   \* "idle", "running", "done" or "failed"

programVars == <<process, code, child, answer, written, pipe, buffer, foreign, expired>>
externalVars == <<programs, nth, programVars, given, found, outcome>>

-----------------------------------------------------------------------------
(* What is made of an answer *)

Within(r, length) == 0 <= r.start /\ r.start <= r.end /\ r.end <= length

\* protocolRange and protocolEdits
Located(r) == r.path \in DOMAIN Lengths /\ Within(r, Lengths[r.path])

\* convert: what a diagnostic must be.
Valid(d) ==
    /\ d.named /\ d.message
    /\ d.severity \in {"error", "warning", "info", "hint"}
    /\ d.category
    /\ Located(d)
    /\ \A k \in DOMAIN d.related : d.related[k].path = d.path /\ Located(d.related[k])
    /\ \A k \in DOMAIN d.fixes :
          /\ d.fixes[k].described
          /\ d.fixes[k].safe => d.fixes[k].edits # <<>>
          /\ \A e \in DOMAIN d.fixes[k].edits : Within(d.fixes[k].edits[e], Lengths[d.path])

\* The decoder takes one whole value of known fields and nothing after it.
Decodes == ~foreign /\ buffer = answer.size /\ answer.form = "valid" /\ answer.version = 1

\* The answer is taken whatever the program said when it ended (a plausible bug).
Accepted_AnyCode == Decodes /\ \A k \in DOMAIN answer.diagnostics : Valid(answer.diagnostics[k])

\* Run and convert accept an answer.
Accepted ==
    /\ code = "ok" /\ ~expired
    /\ Decodes
    /\ \A k \in DOMAIN answer.diagnostics : Valid(answer.diagnostics[k])

-----------------------------------------------------------------------------
ExternalInit ==
    /\ programs = 0 /\ nth = 0
    /\ process = "none" /\ code = "ok" /\ child = FALSE
    /\ answer = [size |-> 0]
    /\ written = 0 /\ pipe = 0 /\ buffer = 0 /\ foreign = FALSE /\ expired = FALSE
    /\ given = <<>> /\ found = <<>> /\ outcome = "idle"

\* A program is started under a deadline of its own.
Launch ==
    /\ process' = "running" /\ code' = "ok" /\ child' = FALSE
    /\ answer' \in Answers
    /\ written' = 0 /\ pipe' = 0 /\ buffer' = 0 /\ foreign' = FALSE /\ expired' = FALSE

\* Run of internal/external with n programs.
Begin(n) ==
    /\ outcome = "idle" /\ n > 0
    /\ programs' = n /\ nth' = 1 /\ outcome' = "running"
    /\ Launch
    /\ UNCHANGED <<given, found>>

\* What the program does.
WriteChunk ==
    /\ process = "running" /\ written < answer.size /\ pipe < Capacity
    /\ written' = written + 1 /\ pipe' = pipe + 1
    /\ UNCHANGED <<programs, nth, process, code, child, answer, buffer, foreign, expired,
                   given, found, outcome>>
Fork ==
    /\ process = "running" /\ ~child
    /\ child' = TRUE
    /\ UNCHANGED <<programs, nth, process, code, answer, written, pipe, buffer, foreign, expired,
                   given, found, outcome>>
Exit(c) ==
    /\ process = "running"
    /\ process' = "exited" /\ code' = c
    /\ UNCHANGED <<programs, nth, child, answer, written, pipe, buffer, foreign, expired,
                   given, found, outcome>>

\* What a child does.
ChildWrites ==
    /\ child /\ ~foreign /\ pipe < Capacity
    /\ foreign' = TRUE /\ pipe' = pipe + 1
    /\ UNCHANGED <<programs, nth, process, code, child, answer, written, buffer, expired,
                   given, found, outcome>>
ChildEnds ==
    /\ child
    /\ child' = FALSE
    /\ UNCHANGED <<programs, nth, process, code, answer, written, pipe, buffer, foreign, expired,
                   given, found, outcome>>

\* io.Copy fills the buffer through the ReadFrom it gets from bytes.Buffer: Write
\* of limitedBuffer, and its limit, are passed by.
Receive ==
    /\ pipe > 0
    /\ pipe' = pipe - 1 /\ buffer' = buffer + 1
    /\ UNCHANGED <<programs, nth, process, code, child, answer, written, foreign, expired,
                   given, found, outcome>>

\* The deadline only makes the answer late (a plausible bug).
Deadline_NoKill ==
    /\ process \in {"running", "exited"} /\ ~expired
    /\ expired' = TRUE
    /\ UNCHANGED <<programs, nth, process, code, child, answer, written, pipe, buffer, foreign,
                   given, found, outcome>>

\* The deadline passes: a process that runs is killed.  One that has ended and is
\* not reaped may count as killed or not.
Deadline ==
    /\ process \in {"running", "exited"} /\ ~expired
    /\ \/ process = "running" /\ process' = "exited" /\ code' = "killed" /\ expired' = TRUE
       \/ process = "exited" /\ expired' = TRUE /\ UNCHANGED <<process, code>>
    /\ UNCHANGED <<programs, nth, child, answer, written, pipe, buffer, foreign,
                   given, found, outcome>>

\* Wait learns how the process ended.
Reap ==
    /\ process = "exited"
    /\ process' = "reaped"
    /\ UNCHANGED <<programs, nth, code, child, answer, written, pipe, buffer, foreign, expired,
                   given, found, outcome>>

\* Wait has also seen the end of the output: the answer is taken or the run fails.
Finish ==
    /\ outcome = "running" /\ process = "reaped" /\ ~child /\ pipe = 0
    /\ given' = Append(given, [answer |-> answer, written |-> written, code |-> code,
                               alone |-> ~foreign])
    /\ IF Accepted
       THEN /\ found' = found \o answer.diagnostics
            /\ IF nth = programs
               THEN outcome' = "done" /\ process' = "none"
                    /\ UNCHANGED <<nth, code, child, answer, written, pipe, buffer, foreign, expired>>
               ELSE nth' = nth + 1 /\ Launch /\ UNCHANGED outcome
       ELSE /\ outcome' = "failed" /\ process' = "none"
            /\ UNCHANGED <<nth, found, code, child, answer, written, pipe, buffer, foreign, expired>>
    /\ UNCHANGED programs

\* The next context has its programs asked again.
Again ==
    /\ outcome \in {"idle", "done"}
    /\ outcome' = "idle"
    /\ UNCHANGED <<programs, nth, programVars, given, found>>

Program == WriteChunk \/ Fork \/ (\E c \in {"ok", "error"} : Exit(c)) \/ ChildWrites \/ ChildEnds
Linter == Receive \/ Deadline \/ Reap \/ Finish

ExternalNext == (\E n \in Nat : Begin(n)) \/ Again \/ Program \/ Linter

\* The programs of one lint, whatever else the lint does in between.
ExternalSpec == ExternalInit /\ [][ExternalNext]_externalVars

-----------------------------------------------------------------------------
(* Properties *)

\* docs/external-rules.md "Invalid output, non-zero exits, cancellation, timeouts
\* ... fail analysis": what was taken was written whole, by programs that ended by
\* themselves and well, and no diagnostic is damaged.
GivenAreWhole ==
    /\ \A n \in DOMAIN given :
          /\ given[n].code = "ok" /\ given[n].alone
          /\ given[n].written = given[n].answer.size
          /\ given[n].answer.form = "valid" /\ given[n].answer.version = 1
    /\ \A k \in DOMAIN found : Valid(found[k])

\* The diagnostics that are reported are those of the answers.  (How they are sorted
\* in the end is left out.)
AnswersOf(gs) ==
    LET upTo[n \in 0 .. Len(gs)] ==
            IF n = 0 THEN <<>> ELSE upTo[n - 1] \o gs[n].answer.diagnostics
    IN  upTo[Len(gs)]

WholeAnswers ==
    outcome = "done" => found = AnswersOf(given) /\ GivenAreWhole

\* docs/external-rules.md "responses over 8 MiB fail analysis".
LongAnswersFail == outcome = "done" => \A n \in DOMAIN given : given[n].written <= Limit
=============================================================================
