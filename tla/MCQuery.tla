------------------------------ MODULE MCQuery ------------------------------
(* A model checking instance of queries.                                   *)
EXTENDS Query

CONSTANTS srv1, srv2, srv3

\* A pool of one server and a pool of two.
const_PoolSet == {{srv1}, {srv2, srv3}}

\* Any statement on the server of the first pool, some of them also
\* in the second pool, or while the user is dropped there.
const_Masters == <<srv1, srv2>>
const_Plans ==
    ((DOMAIN Statement) \X {"none"}) \cup ({"none"} \X {"drop_server", "grant", "count_size"})
        \cup ({"create_user", "drop_user"} \X {"drop_user"})
=============================================================================
