----------------------------- MODULE MCBooking ------------------------------
(* Small instances of Booking for TLC. *)
EXTENDS Booking, TLC

\* The application's service app and a second one, other, on one Redis client;
\* p posts a booking of x (p2 is its inner call), m one of x and y (m2), v views,
\* w views through the interceptor,
\* j and k are ticks of the cron job.
CONSTANTS app, other, redis, p, p2, m, m2, v, w, j, k, x, y

Services == (app :> [prefix |-> "lock", client |-> redis, exposed |-> TRUE, closes |-> FALSE])
         @@ (other :> [prefix |-> "other", client |-> redis, exposed |-> TRUE, closes |-> TRUE])

Req(via, parent, keys, mode, onFail) ==
    [via |-> via, parent |-> parent, keys |-> keys, mode |-> mode, onFail |-> onFail]

Requests ==
    (p :> Req("decorator", NoCall, {x}, "plain", "throw"))
    @@ (p2 :> Req("direct", p, {x}, "plain", "throw"))
    @@ (m :> Req("direct", NoCall, {"seatmap"}, "write", "throw"))
    @@ (m2 :> Req("direct", m, {x, y}, "plain", "throw"))
    @@ (v :> Req("direct", NoCall, {"seatmap"}, "read", "throw"))
    @@ (w :> Req("interceptor", NoCall, {"seatmap"}, "read", "throw"))
    @@ (j :> Req("decorator", NoCall, {"report"}, "plain", "skip"))
    @@ (k :> Req("decorator", NoCall, {"report"}, "plain", "skip"))

Roles == (p :> "post") @@ (p2 :> "seat") @@ (m :> "multi") @@ (m2 :> "group")
      @@ (v :> "view") @@ (w :> "view") @@ (j :> "report") @@ (k :> "report")

\* The application alone, with one viewer or the other, and the registry with
\* two services.
MCCasts == {{app, p, p2, m, m2, v}, {app, m, m2, w}, {app, other, p, p2, j, k}}

Wanted == [c \in Call |-> CASE c \in {p, p2} -> <<x>> [] c \in {m, m2} -> <<y, x>> [] OTHER -> <<>>]
=============================================================================
