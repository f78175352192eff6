---------------------------- MODULE MCRedaction ----------------------------
EXTENDS Redaction

MCSymbols == {"a", "b", "c", "d", "e", "j", "x"} \cup Written

Rule(id, scopes, action, pattern) ==
  [id |-> id, appliesTo |-> scopes, action |-> action, pattern |-> pattern, keys |-> {}, queryKeys |-> {},
   any |-> pattern = {}, exceptions |-> {}, unless |-> {}]

Text == {"console.text", "network.url", "network.responseBody"}
jwt     == Rule("bearer-and-jwt-anywhere", Text \ {"network.url"}, "mask-match", {"j"})
email   == [Rule("pii-email", Text, "mask-match", {"e", "x"}) EXCEPT !.exceptions = {"x"}]
body    == [Rule("response-bodies-default", {"network.responseBody"}, "drop-value", {}) EXCEPT !.unless = {"json"}]
query   == [Rule("url-query-secrets", {"network.url"}, "mask-value", {}) EXCEPT !.queryKeys = {"token"}, !.any = FALSE]
session == [Rule("session-ids-in-storage", {"storage.localStorage"}, "hash-value", {}) EXCEPT !.keys = {"token"}]
dropped == [query EXCEPT !.action = "drop-value"]
kept    == Rule("kept", {"console.text"}, "keep", {"e"})

MCPolicies == {<<jwt, email, body, query, session>>, <<jwt, kept, dropped, email>>, <<email, body, jwt, query>>}

Field(scope, key, value) ==
  [scope |-> scope, key |-> key, value |-> value, inUrl |-> scope = "network.url",
   contentType |-> IF key = "json" THEN "json" ELSE "image", optIn |-> key = "json"]

MCFields ==
  {Field("console.text", "", <<"j", "a", "e">>), Field("console.text", "", <<"c", "d", "a", "e">>),
   Field("console.text", "", <<"x", "e", "j">>), Field("console.text", "", <<"a", "a", "a", "a", "a">>),
   Field("network.url", "token", <<"c", "d">>), Field("network.url", "q", <<"c", "d", "a">>),
   Field("network.responseBody", "json", <<"e", "j">>), Field("network.responseBody", "", <<"a">>),
   Field("storage.localStorage", "token", <<"a", "b">>), Field("dom.text", "", <<"c", "d">>)}

MCCredentials == {<<>>, << <<"c", "d">>, <<"c", "d", "a">>, <<"a">> >>}
=============================================================================
