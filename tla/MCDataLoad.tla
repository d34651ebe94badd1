----------------------------- MODULE MCDataLoad ----------------------------
(* Two tasks that copy two records each, one of which the table has already. *)
EXTENDS DataLoad

CONSTANTS l1, l2, k1, k2

Connection(host, schema, password, extra) ==
    [host |-> host, schema |-> schema, password |-> password, extra |-> extra]
Source(extra) == Connection("source", "db", "plain", extra)
Target(schema, extra) == Connection("target", schema, "plain", extra)

\* Any table and any call of insert_rows, between plain connections.
TableSetups ==
    [source : {Source({"sslmode"})}, target : {Target("db", {"sslmode", "keepalives"})},
     database : {None}, via : {"conn"}, options : {FALSE}, local : {FALSE},
     pk : {{}, {"key"}}, shared : BOOLEAN,
     fields : {"discovered", "key", "value"}, index : {"discovered", "given", "none"}]

\* Any pair of connections, to a table with a key.
ConnectionSetups ==
    [source : {Source({}), Source({"isolation_level"})},
     target : {Target("db", {"options"}), Target("db", {"isolation_level"}),
               Target("other", {}), Connection("target", "db", "reserved", {}),
               Target("db", {"cluster"}), Connection(None, None, None, {})},
     database : {None, "db"}, via : {"conn", "engine"}, options : BOOLEAN, local : BOOLEAN,
     pk : {{"key"}}, shared : {FALSE}, fields : {"value"}, index : {"given"}]

\* The fields and keys are looked up, however the task writes, and localhost may answer.
LookupSetups ==
    [source : {Source({})},
     target : {Target("db", {"options"}), Target("db", {"isolation_level"}), Target("other", {}),
               Connection("target", "db", "reserved", {})},
     database : {None}, via : {"conn", "engine"}, options : {FALSE}, local : BOOLEAN,
     pk : {{"key"}}, shared : {FALSE}, fields : {"discovered"}, index : {"given", "discovered"}]

MCSetups == TableSetups \cup ConnectionSetups \cup LookupSetups

\* A table with a key, loaded without an index.
NoIndexSetups == {s \in TableSetups : s.pk # {} /\ s.index = "none"}
=============================================================================
