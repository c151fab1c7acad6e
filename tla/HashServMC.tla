----------------------------- MODULE HashServMC -----------------------------
(* Small request sets for model checking HashServ. *)
EXTENDS HashServ, TLC

\* Clients and slots are interchangeable: used by the runs without liveness
Symmetry == Permutations(Clients) \cup Permutations(Conns)

CONSTANTS t1, t2, o1, o2, u1, u2

Req(kind, t, o, u) == [kind |-> kind, taskhash |-> t, outhash |-> o, unihash |-> u]

\* What a request does not carry is fixed to one value
Get(t) == Req("get", t, o1, u1)
Stream(t) == Req("get-stream", t, o1, u1)
GetOut(t, o) == Req("get-outhash", t, o, u1)
Report(t, o, u) == Req("report", t, o, u)
Equiv(t, u) == Req("report-equiv", t, o1, u)
BackfillWaitReq == Req("backfill-wait", t1, o1, u1)

\* Nondeterministic output of t1, and t2 with an output of t1
Reports == {Report(t1, o1, u1), Report(t1, o2, u2), Report(t2, o1, u2)}

StandaloneRequests ==
  Reports \cup {Get(t1), Stream(t1), Equiv(t1, u2), GetOut(t1, o2)}

\* A read-only server refuses the report; the server that owns the file takes both
ReadOnlyRequests == {Report(t1, o2, u2), Get(t1), Stream(t1)}

OwnerRequests == {Report(t1, o1, u1), Equiv(t1, u2)}

UpstreamRequests ==
  {Report(t1, o1, u1), Report(t2, o1, u2), Stream(t1), BackfillWaitReq}

UpstreamReports == {Report(t2, o1, u2), Report(t1, o2, u2)}

MirrorRequests == {Get(t1), Stream(t1), Stream(t2), BackfillWaitReq}

\* Nondeterministic output upstream: t1 has a second, newer row
MirrorReports == {Report(t1, o1, u1), Report(t1, o2, u2), Equiv(t2, u2)}

NoRequests == {}
=============================================================================
