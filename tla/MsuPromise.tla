----------------------------- MODULE MsuPromise -----------------------------
(***************************************************************************)
(* What msu.sv promises to the kernel around it, in terms of its streams:  *)
(* it answers a request, once it has all of it, with the square taken      *)
(* t_final - t_start times, the count of the last squaring, and that count *)
(* with the build's seed; one beat after the other; and is then done.      *)
(* A reset may end a job at any time, its answer incomplete.               *)
(***************************************************************************)
EXTENDS Naturals, Sequences

CONSTANTS
  T_LEN,        \* width of the counts
  Requests      \* pairs <<t_start, t_final>>

VARIABLES
  status,       \* of the request: "idle" before the first, busy, done or abandoned
  request,      \* [job, t_start, t_final]; job numbers the requests
  offered,      \* beats of it taken
  answer        \* beats sent

promise_vars == <<status, request, offered, answer>>

Beat(kind, n, job) == [kind |-> kind, n |-> n, job |-> job]

RequestBeats(r) == <<Beat("t", r.t_start, 0), Beat("t", r.t_final, 0), Beat("sq", 0, r.job)>>

\* Counts wrap; a request whose counts are equal goes all the way round.
Squarings(r) == ((r.t_final + 2^T_LEN - r.t_start - 1) % 2^T_LEN) + 1
LastCount(r) == (r.t_start + Squarings(r) - 1) % 2^T_LEN
AnswerBeats(r) ==
  <<Beat("t", LastCount(r), 0), Beat("seeded", LastCount(r), 0),
    Beat("sq", Squarings(r), r.job)>>

PromiseInit ==
  /\ status = "idle" /\ offered = 0 /\ answer = <<>>
  /\ request = [job |-> 0, t_start |-> 0, t_final |-> 0]

Request ==
  /\ status # "busy"
  /\ status' = "busy" /\ offered' = 0 /\ answer' = <<>>
  /\ \E r \in Requests : request' = [job |-> request.job + 1,
                                     t_start |-> r[1], t_final |-> r[2]]

TakeBeat ==
  /\ status = "busy" /\ offered < Len(RequestBeats(request))
  /\ offered' = offered + 1
  /\ UNCHANGED <<status, request, answer>>

SendBeat ==
  /\ status = "busy" /\ offered = Len(RequestBeats(request))
  /\ Len(answer) < Len(AnswerBeats(request))
  /\ answer' = Append(answer, AnswerBeats(request)[Len(answer) + 1])
  /\ UNCHANGED <<status, request, offered>>

Finish ==
  /\ status = "busy" /\ answer = AnswerBeats(request)
  /\ status' = "done"
  /\ UNCHANGED <<request, offered, answer>>

Abandon ==
  /\ status = "busy" /\ status' = "abandoned"
  /\ UNCHANGED <<request, offered, answer>>

PromiseNext == Request \/ TakeBeat \/ SendBeat \/ Finish \/ Abandon

PromiseSpec == PromiseInit /\ [][PromiseNext]_promise_vars
=============================================================================
