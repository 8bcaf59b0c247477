-------------------------- MODULE MCStorageLayout --------------------------
(***************************************************************************)
(* Small instances of StorageLayout for TLC: two applications, two users   *)
(* and two processes, in casts of calls that meet on one kind of record.   *)
(***************************************************************************)
EXTENDS StorageLayout

CONSTANTS p, q, c1, c2, c3, c4, a1, a2, a3, g1, d1, l1, l2, v1, v2, v3, v4, v5, k1, m1, m2, m3

MCWord == STRING
MCPad(n) == <<"00000000", "00000001", "00000002">>[n + 1]

\* Session s of user u of application a, unless said otherwise.
Call(op, proc) ==
    [op |-> op, proc |-> proc, app |-> <<"a">>, user |-> <<"u">>, sid |-> <<"s">>,
     keys |-> {}, file |-> <<"x">>, event |-> <<"e">>, token |-> <<"w">>]

K == <<"k">>
Everywhere == {K, <<"app">> \o K, <<"user">> \o K, <<"temp">> \o K}

MCJob ==
    [j \in Jobs |->
        CASE j = c1 -> [Call("create_session", p) EXCEPT !.keys = Everywhere]
          [] j = c2 -> [Call("create_session", q) EXCEPT !.app = <<"b">>, !.keys = {<<"user">> \o K}]
          [] j = c3 -> [Call("create_session", q) EXCEPT !.user = <<"v">>, !.keys = {<<"app">> \o K}]
          [] j = c4 -> Call("create_session", p)
          [] j = a1 -> [Call("append_event", p) EXCEPT !.keys = Everywhere \ {K}]
          [] j = a2 -> [Call("append_event", q) EXCEPT !.keys = {<<"app">> \o K}]
          [] j = a3 -> [Call("append_event", p) EXCEPT !.keys = {K}]
          [] j = g1 -> Call("get_session", p)
          [] j = d1 -> Call("delete_session", p)
          [] j = l1 -> Call("list_sessions", q)
          [] j = l2 -> Call("list_sessions", p)
          [] j = v1 -> Call("save_artifact", p)
          [] j = v2 -> [Call("save_artifact", q) EXCEPT !.file = <<"user", "x">>]
          [] j = v3 -> [Call("save_artifact", q) EXCEPT !.file = <<"x", "00000000">>]
          [] j = v4 -> [Call("save_artifact", q) EXCEPT !.app = <<"b">>, !.file = <<"y">>]
          [] j = v5 -> Call("save_artifact", q)
          [] j = k1 -> Call("list_artifact_keys", p)
          [] j = m1 -> Call("add_events_to_memory", p)
          [] j = m2 -> [Call("add_events_to_memory", q) EXCEPT !.sid = <<"t">>]
          [] j = m3 -> Call("add_events_to_memory", q)]

MCOverride == [query |-> [total_timeout |-> 5000], apply |-> [max_retries |-> 1]]

MCCasts ==
    {{c1, c2, g1}, {c1, c3, g1}, {c4, a1, a2, g1}, {c4, a3, d1, g1},
     {c2, c4, l1}, {c3, c4, l2}, {c4, d1, l2},
     {v1, v2, k1}, {v1, v3, k1}, {v2, v4, k1}, {v1, v5, k1}, {m1, m2, m3}}

\* A session with the name that manifests end in.
ReservedJob == [MCJob EXCEPT ![c4].sid = <<"sl">>]
OneCreate   == {{c4}}

\* A client whose operations are sent again like its reads.
RetryOverride == [operate |-> [max_retries |-> 2]]
=============================================================================
