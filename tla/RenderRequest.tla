--------------------------- MODULE RenderRequest ---------------------------
(***************************************************************************)
(* A render request and the interval it is about (date/date.go,            *)
(* cmd/carbonapi/http).                                                    *)
(*                                                                         *)
(* A time is a record [kind, at]: "now" counts from the clock, "epoch" is  *)
(* absolute, "local" a date read in the time zone of the request, "none"   *)
(* the parameter left out or not understood.                               *)
(***************************************************************************)
EXTENDS FetchPlan, FiniteSetsExt

CONSTANTS DefaultRange     \* the interval without from: 24 hours

(* DateParamToEpoch *)
Epoch(time, tz, now, default) ==
  CASE time.kind = "now"   -> now + time.at
    [] time.kind = "epoch" -> time.at
    [] time.kind = "local" -> time.at - tz
    [] OTHER               -> default

(* timestampTruncate, with one entry in TruncateTime *)
Truncate(conf, t, duration) ==
  IF conf.truncate # 0 /\ duration > conf.truncateOver THEN t - (t % conf.truncate) ELSE t

Raw(req, now) ==
  Span(Epoch(req.from, req.tz, now, now - DefaultRange), Epoch(req.until, req.tz, now, now))

FormSpan(conf, req, now) ==
  LET raw == Raw(req, now)
      duration == raw.until - raw.from
  IN Span(Truncate(conf, raw.from, duration), Truncate(conf, raw.until, duration))

(* The interval and the targets of a protobuf v3 request are those of its  *)
(* body. *)
HasBody(req) == req.body # <<>>
TargetsOf(req) == IF HasBody(req) THEN req.body[1].targets ELSE req.targets
SpanOf(conf, req, now) == IF HasBody(req) THEN req.body[1].span ELSE FormSpan(conf, req, now)
=============================================================================
