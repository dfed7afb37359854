------------------------------ MODULE MCOneShot ------------------------------
(* Instances of OneShot for TLC. *)
EXTENDS OneShot

Args == {"object", "malformed"}
Calls1 == {[id |-> id, name |-> name, args |-> args] :
             id \in {NoID, Given("a")}, name \in {"t", "unknown"}, args \in Args}
Ask(seed, bytes, calls, finish) ==
  [id |-> seed, choices |-> <<[bytes |-> bytes, calls |-> calls, finish |-> finish]>>]
T(id, args) == [id |-> id, name |-> "t", args |-> args]
Ping == [id |-> NoID, name |-> "plasmid_ping", args |-> "ping"]

(* Calls with and without IDs, malformed, unknown, repeated and too many;  *)
(* texts within and beyond the limit; refused responses.                   *)
MCProviderResponses ==
  {Ask("r", 0, <<c>>, "tool_calls") : c \in Calls1}
  \cup {Ask("r", 1, <<T(Given("a"), x), T(i, y)>>, "stop") : x \in Args, y \in Args, i \in {Given("a"), NoID}}
  \cup {Ask(Empty, 2, <<T(NoID, "object"), T(NoID, "object"), T(NoID, "object")>>, "tool_calls"),
        Ask("r", 2, <<>>, "stop"), Ask("r", 3, <<>>, "stop"), Ask("r", 1, <<>>, "length"),
        Ask("r", 0, <<>>, "stop"), Ask("r", 0, <<Ping>>, "tool_calls"),
        [id |-> "r", choices |-> <<>>]}

Yield(parts, finish, partial) ==
  [error |-> NoError, parts |-> parts, failures |-> {}, finish |-> finish, partial |-> partial, malformed |-> {}]
C(id, name) == Call(id, name, "object")
MCCallerResponses ==
  {Yield(<<Text(1)>>, "STOP", TRUE), Yield(<<Text(2)>>, "STOP", FALSE), Yield(<<>>, "STOP", FALSE),
   Yield(<<C(Given("a"), "t"), C(Given("a"), "t")>>, "STOP", FALSE),
   Yield(<<C(NoID, "unknown"), C(Numbered(1), "t")>>, "STOP", FALSE),
   Yield(<<C(Given("a"), "later")>>, "STOP", FALSE),
   Yield(<<Response(Given("a"), "t", 1)>>, "STOP", FALSE),
   Yield(<<Text(1), Response(Given("a"), "t", 1), C(NoID, "t")>>, "STOP", FALSE),
   Yield(<<Call(NoID, "plasmid_ping", "ping")>>, "STOP", FALSE)}
=============================================================================
