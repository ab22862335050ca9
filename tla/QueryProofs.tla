---------------------------- MODULE QueryProofs ----------------------------
(***************************************************************************)
(* Proofs about the handle of a query, the rights of its user, the         *)
(* statements that change the database and those that count, list or       *)
(* select, for any pools, any queries at the same time, any statements of  *)
(* the language and any number of changes of the status of the servers.    *)
(*                                                                         *)
(* The first part goes through the handlers of all statements, once.  The  *)
(* second part is an inductive invariant that only needs what the first    *)
(* part found.  The third part finds the statements that are changes,      *)
(* follows a change from its master to the other pools and, through the    *)
(* queues, to the replicas, and then follows the object: a change that is  *)
(* answered with success is made in every pool and is, or will be, on      *)
(* every server, and statements with the same effect leave all servers     *)
(* the same.  The fourth part finds the statements that ask the other      *)
(* servers for their part and follows the numbers: the answer has the part *)
(* of every pool or server, once.                                          *)
(***************************************************************************)
EXTENDS Query, FiniteSetTheorems, NaturalsInduction, WellFoundedInduction, TLAPS

-----------------------------------------------------------------------------
(* The handlers and the statements.                                        *)

CallBacks == {"on_update_xxx_response", "on_count_xxx_response", "on_list_xxx_response",
              "on_select_response", "on_drop_series_response", "on_drop_shards_response",
              "on_tag_response", "on_alter_xxx_response", "on_groups_response",
              "on_tags_response", "on_ack_response"}

(* A handler that RunNode knows how to run: if it asks other servers then  *)
(* there is a call-back for the answers.                                   *)
WellFormed(node) ==
    /\ node.eff \in {"none", "create", "drop", "set"}
    /\ node.count \in {"none", "self", "row", "rows", "all"}
    /\ node.go \in {"next", "async", "forward", "ack"}
    /\ node.go \in {"forward", "ack"} => node.cb \in CallBacks

(* It changes nothing and asks nobody.                                     *)
Harmless(node) ==
    node.eff = "none" /\ node.count = "none" /\ node.go \in {"next", "async"}

(* Up to the first handler that checks the rights, all are harmless.       *)
Guarded(S) ==
    \A k \in 1..Len(S) : (\A j \in 1..k : ~S[j].acc) => Harmless(S[k])

StatementOK(S) ==
    /\ Len(S) \in Nat \ {0}
    /\ \A k \in 1..Len(S) : WellFormed(S[k])
    /\ Guarded(S)

(* Every handler of a statement is of one of the kinds that RunNode knows, *)
(* and one that asks other servers has a call-back for their answers.      *)
LEMMA HandlersOK ==
    /\ WellFormed(enter_alter_stmt) /\ WellFormed(enter_alter_group)
    /\ WellFormed(enter_set_expression) /\ WellFormed(enter_set_name)
    /\ WellFormed(exit_alter_group) /\ WellFormed(enter_alter_tag)
    /\ WellFormed(exit_alter_tag) /\ WellFormed(enter_alter_user)
    /\ WellFormed(enter_set_password) /\ WellFormed(exit_alter_user)
    /\ WellFormed(enter_alter_server) /\ WellFormed(exit_set_address)
    /\ WellFormed(exit_set_port) /\ WellFormed(exit_set_backup_mode)
    /\ WellFormed(SetLogLevelServer) /\ WellFormed(enter_alter_servers)
    /\ WellFormed(enter_where_xxx) /\ WellFormed(exit_set_log_level)
    /\ WellFormed(exit_set_drop_threshold) /\ WellFormed(exit_set_tee)
    /\ WellFormed(exit_set_timezone) /\ WellFormed(enter_set_ignore_threshold)
    /\ WellFormed(exit_set_expiration_xxx) /\ WellFormed(exit_set_list_limit)
    /\ WellFormed(exit_set_select_points_limit) /\ WellFormed(enter_alter_series)
    /\ WellFormed(enter_series_match) /\ WellFormed(enter_tag_series)
    /\ WellFormed(exit_tag_series) /\ WellFormed(enter_untag_series)
    /\ WellFormed(exit_untag_series) /\ WellFormed(enter_count_stmt)
    /\ WellFormed(exit_count_pools(FALSE)) /\ WellFormed(exit_count_pools(TRUE))
    /\ WellFormed(exit_count_series) /\ WellFormed(exit_count_series_length)
    /\ WellFormed(exit_count_servers(FALSE)) /\ WellFormed(enter_timeit_stmt)
    /\ WellFormed(exit_count_servers(TRUE)) /\ WellFormed(exit_timeit_stmt)
    /\ WellFormed(exit_count_servers_received) /\ WellFormed(exit_count_servers_selected)
    /\ WellFormed(exit_count_shards) /\ WellFormed(exit_count_shards_size)
    /\ WellFormed(exit_count_users) /\ WellFormed(exit_count_groups(FALSE))
    /\ WellFormed(finish_count_groups) /\ WellFormed(exit_count_groups(TRUE))
    /\ WellFormed(exit_count_tags(TRUE)) /\ WellFormed(finish_count_tags)
    /\ WellFormed(enter_list_stmt) /\ WellFormed(enter_limit_expr)
    /\ WellFormed(exit_list_groups(FALSE)) /\ WellFormed(finish_list_groups)
    /\ WellFormed(enter_xxx_columns) /\ WellFormed(exit_list_tags(TRUE))
    /\ WellFormed(finish_list_tags) /\ WellFormed(exit_list_pools)
    /\ WellFormed(exit_list_series) /\ WellFormed(async_list_series)
    /\ WellFormed(exit_list_servers(FALSE)) /\ WellFormed(exit_list_servers(TRUE))
    /\ WellFormed(exit_list_shards) /\ WellFormed(exit_list_users)
    /\ WellFormed(enter_create_stmt) /\ WellFormed(exit_create_group)
    /\ WellFormed(enter_create_user) /\ WellFormed(NewPassword)
    /\ WellFormed(exit_create_user) /\ WellFormed(enter_drop_stmt)
    /\ WellFormed(exit_drop_group) /\ WellFormed(exit_drop_tag)
    /\ WellFormed(exit_drop_user) /\ WellFormed(exit_drop_server)
    /\ WellFormed(exit_drop_series) /\ WellFormed(async_drop_series)
    /\ WellFormed(exit_drop_shards) /\ WellFormed(async_drop_shards)
    /\ WellFormed(enter_access_expr) /\ WellFormed(enter_grant_user)
    /\ WellFormed(exit_grant_user) /\ WellFormed(enter_revoke_user)
    /\ WellFormed(exit_revoke_user) /\ WellFormed(enter_select_stmt)
    /\ WellFormed(enter_merge_as) /\ WellFormed(exit_between_expr)
    /\ WellFormed(async_select_aggregate) /\ WellFormed(exit_select_stmt(FALSE))
    /\ WellFormed(exit_after_expr) /\ WellFormed(exit_before_expr)
    /\ WellFormed(exit_select_stmt(TRUE)) /\ WellFormed(exit_head_expr)
    /\ WellFormed(exit_tail_expr) /\ WellFormed(exit_show_stmt)
    /\ WellFormed(enter_help) /\ WellFormed(exit_help_xxx)
    /\ WellFormed(exit_calc_stmt)
  BY DEF WellFormed, CallBacks, enter_alter_stmt, Node, enter_alter_group,
     enter_set_expression, Async, enter_set_name, exit_alter_group, Update,
     Forward, enter_alter_tag, exit_alter_tag, enter_alter_user,
     enter_set_password, exit_alter_user, enter_alter_server, exit_set_address,
     exit_set_port, exit_set_backup_mode, SetLogLevelServer,
     enter_alter_servers, enter_where_xxx, exit_set_log_level,
     exit_set_drop_threshold, Setting, exit_set_tee, exit_set_timezone,
     enter_set_ignore_threshold, exit_set_expiration_xxx, Versioned,
     exit_set_list_limit, exit_set_select_points_limit, enter_alter_series,
     enter_series_match, enter_tag_series, exit_tag_series, enter_untag_series,
     exit_untag_series, enter_count_stmt, exit_count_pools, Counted,
     exit_count_series, exit_count_series_length, exit_count_servers,
     enter_timeit_stmt, exit_timeit_stmt, exit_count_servers_received,
     exit_count_servers_selected, exit_count_shards, exit_count_shards_size,
     exit_count_users, exit_count_groups, finish_count_groups, exit_count_tags,
     finish_count_tags, enter_list_stmt, enter_limit_expr, exit_list_groups,
     finish_list_groups, enter_xxx_columns, exit_list_tags, finish_list_tags,
     exit_list_pools, Listed, exit_list_series, async_list_series,
     exit_list_servers, exit_list_shards, exit_list_users, enter_create_stmt,
     exit_create_group, enter_create_user, NewPassword, exit_create_user,
     enter_drop_stmt, exit_drop_group, exit_drop_tag, exit_drop_user,
     exit_drop_server, exit_drop_series, async_drop_series, exit_drop_shards,
     async_drop_shards, enter_access_expr, enter_grant_user, exit_grant_user,
     enter_revoke_user, exit_revoke_user, enter_select_stmt, enter_merge_as,
     exit_between_expr, async_select_aggregate, exit_select_stmt,
     exit_after_expr, exit_before_expr, exit_head_expr, exit_tail_expr,
     exit_show_stmt, enter_help, exit_help_xxx, exit_calc_stmt

(* The statements of the language.                                         *)
LEMMA StatementNames ==
    DOMAIN Statement =
        {"alter_group", "alter_tag", "alter_user", "set_address", "set_port",
         "backup_mode", "log_level", "log_levels", "drop_threshold", "tee",
         "timezone", "expiration", "list_limit", "points_limit", "tag_series",
         "untag_series", "count_pools", "count_pools_where", "count_series",
         "count_length", "count_servers", "count_servers_remote",
         "count_received", "count_selected", "count_shards", "count_size",
         "count_users", "count_groups", "count_groups_remote",
         "count_tags_remote", "list_groups", "list_tags_remote", "list_pools",
         "list_series", "list_servers", "list_servers_remote", "list_shards",
         "list_users", "create_group", "create_user", "drop_group", "drop_tag",
         "drop_user", "drop_server", "drop_series", "drop_shards", "grant",
         "revoke", "select", "select_some", "select_head", "show", "help",
         "calc"}
  BY DEF Statement

(* Most statements check the rights first: each of the lemmas below is for *)
(* a number of handlers.                                                   *)
LEMMA FirstGuards ==
    ASSUME NEW S, Len(S) \in Nat \ {0}, S[1].acc, \A k \in 1..Len(S) : WellFormed(S[k])
    PROVE  StatementOK(S)
  BY DEF StatementOK, Guarded

LEMMA OneNodes ==
    \A a : a.acc /\ WellFormed(a)
        => StatementOK(<<a>>)
<1> TAKE a
<1> DEFINE S == <<a>>
<1> HAVE a.acc /\ WellFormed(a)
<1>1. Len(S) = 1 /\ S[1].acc /\ \A k \in 1..1 : WellFormed(S[k])
  OBVIOUS
<1> HIDE DEF S
<1> QED BY <1>1, FirstGuards

LEMMA TwoNodes ==
    \A a, b : a.acc /\ WellFormed(a) /\ WellFormed(b)
        => StatementOK(<<a, b>>)
<1> TAKE a, b
<1> DEFINE S == <<a, b>>
<1> HAVE a.acc /\ WellFormed(a) /\ WellFormed(b)
<1>1. Len(S) = 2 /\ S[1].acc /\ \A k \in 1..2 : WellFormed(S[k])
  OBVIOUS
<1> HIDE DEF S
<1> QED BY <1>1, FirstGuards

LEMMA ThreeNodes ==
    \A a, b, c : a.acc /\ WellFormed(a) /\ WellFormed(b) /\ WellFormed(c)
        => StatementOK(<<a, b, c>>)
<1> TAKE a, b, c
<1> DEFINE S == <<a, b, c>>
<1> HAVE a.acc /\ WellFormed(a) /\ WellFormed(b) /\ WellFormed(c)
<1>1. Len(S) = 3 /\ S[1].acc /\ \A k \in 1..3 : WellFormed(S[k])
  OBVIOUS
<1> HIDE DEF S
<1> QED BY <1>1, FirstGuards

LEMMA FourNodes ==
    \A a, b, c, d :
        /\ a.acc /\ WellFormed(a) /\ WellFormed(b) /\ WellFormed(c)
        /\ WellFormed(d)
        => StatementOK(<<a, b, c, d>>)
<1> TAKE a, b, c, d
<1> DEFINE S == <<a, b, c, d>>
<1> HAVE /\ a.acc /\ WellFormed(a) /\ WellFormed(b) /\ WellFormed(c)
         /\ WellFormed(d)
<1>1. Len(S) = 4 /\ S[1].acc /\ \A k \in 1..4 : WellFormed(S[k])
  OBVIOUS
<1> HIDE DEF S
<1> QED BY <1>1, FirstGuards

LEMMA FiveNodes ==
    \A a, b, c, d, e :
        /\ a.acc /\ WellFormed(a) /\ WellFormed(b) /\ WellFormed(c)
        /\ WellFormed(d) /\ WellFormed(e)
        => StatementOK(<<a, b, c, d, e>>)
<1> TAKE a, b, c, d, e
<1> DEFINE S == <<a, b, c, d, e>>
<1> HAVE /\ a.acc /\ WellFormed(a) /\ WellFormed(b) /\ WellFormed(c)
         /\ WellFormed(d) /\ WellFormed(e)
<1>1. Len(S) = 5 /\ S[1].acc /\ \A k \in 1..5 : WellFormed(S[k])
  OBVIOUS
<1> HIDE DEF S
<1> QED BY <1>1, FirstGuards

LEMMA SixNodes ==
    \A a, b, c, d, e, f :
        /\ a.acc /\ WellFormed(a) /\ WellFormed(b) /\ WellFormed(c)
        /\ WellFormed(d) /\ WellFormed(e) /\ WellFormed(f)
        => StatementOK(<<a, b, c, d, e, f>>)
<1> TAKE a, b, c, d, e, f
<1> DEFINE S == <<a, b, c, d, e, f>>
<1> HAVE /\ a.acc /\ WellFormed(a) /\ WellFormed(b) /\ WellFormed(c)
         /\ WellFormed(d) /\ WellFormed(e) /\ WellFormed(f)
<1>1. Len(S) = 6 /\ S[1].acc /\ \A k \in 1..6 : WellFormed(S[k])
  OBVIOUS
<1> HIDE DEF S
<1> QED BY <1>1, FirstGuards

(* The handlers with SIRIPARSER_MASTER_CHECK_ACCESS.                       *)
LEMMA AccessChecked ==
    /\ enter_drop_stmt.acc /\ enter_alter_stmt.acc /\ enter_count_stmt.acc
    /\ enter_create_stmt.acc /\ enter_list_stmt.acc /\ enter_select_stmt.acc
    /\ exit_show_stmt.acc /\ enter_grant_user.acc /\ enter_revoke_user.acc
  BY DEF enter_drop_stmt, enter_alter_stmt, enter_count_stmt, enter_create_stmt,
     enter_list_stmt, enter_select_stmt, exit_show_stmt, enter_grant_user,
     enter_revoke_user, Async, Node

(* The handlers that run before a check, or in a statement without one.    *)
LEMMA BeforeCheck ==
    /\ Harmless(enter_timeit_stmt) /\ Harmless(enter_access_expr)
    /\ Harmless(enter_help) /\ Harmless(exit_help_xxx) /\ Harmless(exit_calc_stmt)
  BY DEF Harmless, enter_timeit_stmt, enter_access_expr, enter_help, exit_help_xxx,
     exit_calc_stmt, Async, Node

LEMMA SecondGuards ==
    ASSUME NEW S, Len(S) \in Nat \ {0, 1}, Harmless(S[1]), S[2].acc,
           \A k \in 1..Len(S) : WellFormed(S[k])
    PROVE  StatementOK(S)
  BY DEF StatementOK, Guarded

LEMMA TimeitNodes ==
    \A a, b, c, d, e :
        /\ Harmless(a) /\ b.acc
        /\ WellFormed(a) /\ WellFormed(b) /\ WellFormed(c)
        /\ WellFormed(d) /\ WellFormed(e)
        => StatementOK(<<a, b, c, d, e>>)
<1> TAKE a, b, c, d, e
<1> DEFINE S == <<a, b, c, d, e>>
<1> HAVE /\ Harmless(a) /\ b.acc
         /\ WellFormed(a) /\ WellFormed(b) /\ WellFormed(c)
         /\ WellFormed(d) /\ WellFormed(e)
<1>1. Len(S) = 5 /\ Harmless(S[1]) /\ S[2].acc /\ \A k \in 1..5 : WellFormed(S[k])
  OBVIOUS
<1> HIDE DEF S
<1> QED BY <1>1, SecondGuards

LEMMA NothingToGuard ==
    ASSUME NEW S, Len(S) \in Nat \ {0},
           \A k \in 1..Len(S) : WellFormed(S[k]) /\ Harmless(S[k])
    PROVE  StatementOK(S)
  BY DEF StatementOK, Guarded

(* Every statement of the language has handlers, all of them known, and    *)
(* checks the rights of the user before it does anything.                  *)
LEMMA StatementsOK ==
    \A name \in DOMAIN Statement : StatementOK(Statement[name])
<1>1. StatementOK(Statement["alter_group"])
  BY HandlersOK, AccessChecked, FiveNodes DEF Statement
<1>2. StatementOK(Statement["alter_tag"])
  BY HandlersOK, AccessChecked, FourNodes DEF Statement
<1>3. StatementOK(Statement["alter_user"])
  BY HandlersOK, AccessChecked, FourNodes DEF Statement
<1>4. StatementOK(Statement["set_address"])
  BY HandlersOK, AccessChecked, ThreeNodes DEF Statement
<1>5. StatementOK(Statement["set_port"])
  BY HandlersOK, AccessChecked, ThreeNodes DEF Statement
<1>6. StatementOK(Statement["backup_mode"])
  BY HandlersOK, AccessChecked, ThreeNodes DEF Statement
<1>7. StatementOK(Statement["log_level"])
  BY HandlersOK, AccessChecked, ThreeNodes DEF Statement
<1>8. StatementOK(Statement["log_levels"])
  BY HandlersOK, AccessChecked, FourNodes DEF Statement
<1>9. StatementOK(Statement["drop_threshold"])
  BY HandlersOK, AccessChecked, TwoNodes DEF Statement
<1>10. StatementOK(Statement["tee"])
  BY HandlersOK, AccessChecked, TwoNodes DEF Statement
<1>11. StatementOK(Statement["timezone"])
  BY HandlersOK, AccessChecked, TwoNodes DEF Statement
<1>12. StatementOK(Statement["expiration"])
  BY HandlersOK, AccessChecked, ThreeNodes DEF Statement
<1>13. StatementOK(Statement["list_limit"])
  BY HandlersOK, AccessChecked, TwoNodes DEF Statement
<1>14. StatementOK(Statement["points_limit"])
  BY HandlersOK, AccessChecked, TwoNodes DEF Statement
<1>15. StatementOK(Statement["tag_series"])
  BY HandlersOK, AccessChecked, FiveNodes DEF Statement
<1>16. StatementOK(Statement["untag_series"])
  BY HandlersOK, AccessChecked, FiveNodes DEF Statement
<1>17. StatementOK(Statement["count_pools"])
  BY HandlersOK, AccessChecked, TwoNodes DEF Statement
<1>18. StatementOK(Statement["count_pools_where"])
  BY HandlersOK, AccessChecked, ThreeNodes DEF Statement
<1>19. StatementOK(Statement["count_series"])
  BY HandlersOK, AccessChecked, ThreeNodes DEF Statement
<1>20. StatementOK(Statement["count_length"])
  BY HandlersOK, AccessChecked, TwoNodes DEF Statement
<1>21. StatementOK(Statement["count_servers"])
  BY HandlersOK, AccessChecked, TwoNodes DEF Statement
<1>22. StatementOK(Statement["count_servers_remote"])
  BY HandlersOK, AccessChecked, BeforeCheck, TimeitNodes DEF Statement
<1>23. StatementOK(Statement["count_received"])
  BY HandlersOK, AccessChecked, TwoNodes DEF Statement
<1>24. StatementOK(Statement["count_selected"])
  BY HandlersOK, AccessChecked, TwoNodes DEF Statement
<1>25. StatementOK(Statement["count_shards"])
  BY HandlersOK, AccessChecked, TwoNodes DEF Statement
<1>26. StatementOK(Statement["count_size"])
  BY HandlersOK, AccessChecked, TwoNodes DEF Statement
<1>27. StatementOK(Statement["count_users"])
  BY HandlersOK, AccessChecked, TwoNodes DEF Statement
<1>28. StatementOK(Statement["count_groups"])
  BY HandlersOK, AccessChecked, ThreeNodes DEF Statement
<1>29. StatementOK(Statement["count_groups_remote"])
  BY HandlersOK, AccessChecked, FourNodes DEF Statement
<1>30. StatementOK(Statement["count_tags_remote"])
  BY HandlersOK, AccessChecked, FourNodes DEF Statement
<1>31. StatementOK(Statement["list_groups"])
  BY HandlersOK, AccessChecked, FourNodes DEF Statement
<1>32. StatementOK(Statement["list_tags_remote"])
  BY HandlersOK, AccessChecked, FourNodes DEF Statement
<1>33. StatementOK(Statement["list_pools"])
  BY HandlersOK, AccessChecked, TwoNodes DEF Statement
<1>34. StatementOK(Statement["list_series"])
  BY HandlersOK, AccessChecked, FourNodes DEF Statement
<1>35. StatementOK(Statement["list_servers"])
  BY HandlersOK, AccessChecked, TwoNodes DEF Statement
<1>36. StatementOK(Statement["list_servers_remote"])
  BY HandlersOK, AccessChecked, ThreeNodes DEF Statement
<1>37. StatementOK(Statement["list_shards"])
  BY HandlersOK, AccessChecked, TwoNodes DEF Statement
<1>38. StatementOK(Statement["list_users"])
  BY HandlersOK, AccessChecked, TwoNodes DEF Statement
<1>39. StatementOK(Statement["create_group"])
  BY HandlersOK, AccessChecked, TwoNodes DEF Statement
<1>40. StatementOK(Statement["create_user"])
  BY HandlersOK, AccessChecked, FourNodes DEF Statement
<1>41. StatementOK(Statement["drop_group"])
  BY HandlersOK, AccessChecked, TwoNodes DEF Statement
<1>42. StatementOK(Statement["drop_tag"])
  BY HandlersOK, AccessChecked, TwoNodes DEF Statement
<1>43. StatementOK(Statement["drop_user"])
  BY HandlersOK, AccessChecked, TwoNodes DEF Statement
<1>44. StatementOK(Statement["drop_server"])
  BY HandlersOK, AccessChecked, TwoNodes DEF Statement
<1>45. StatementOK(Statement["drop_series"])
  BY HandlersOK, AccessChecked, FourNodes DEF Statement
<1>46. StatementOK(Statement["drop_shards"])
  BY HandlersOK, AccessChecked, FourNodes DEF Statement
<1>47. StatementOK(Statement["grant"])
  <2> DEFINE S == <<enter_access_expr, enter_grant_user, enter_set_password,
                  exit_grant_user>>
  <2>1. /\ WellFormed(enter_access_expr) /\ WellFormed(enter_grant_user)
        /\ WellFormed(enter_set_password) /\ WellFormed(exit_grant_user)
    BY HandlersOK
  <2>2. Len(S) = 4
    OBVIOUS
  <2>3. \A k \in 1..4 : WellFormed(S[k])
    BY <2>1
  <2>4. Harmless(S[1]) /\ S[2].acc
    BY AccessChecked, BeforeCheck
  <2>5. Statement["grant"] = S
    BY DEF Statement
  <2> HIDE DEF S
  <2>6. Len(S) \in Nat \ {0, 1} /\ \A k \in 1..Len(S) : WellFormed(S[k])
    BY <2>2, <2>3
  <2>7. StatementOK(S)
    BY <2>4, <2>6, SecondGuards
  <2> QED BY <2>5, <2>7
<1>48. StatementOK(Statement["revoke"])
  <2> DEFINE S == <<enter_access_expr, enter_revoke_user, exit_revoke_user>>
  <2>1. /\ WellFormed(enter_access_expr) /\ WellFormed(enter_revoke_user)
        /\ WellFormed(exit_revoke_user)
    BY HandlersOK
  <2>2. Len(S) = 3
    OBVIOUS
  <2>3. \A k \in 1..3 : WellFormed(S[k])
    BY <2>1
  <2>4. Harmless(S[1]) /\ S[2].acc
    BY AccessChecked, BeforeCheck
  <2>5. Statement["revoke"] = S
    BY DEF Statement
  <2> HIDE DEF S
  <2>6. Len(S) \in Nat \ {0, 1} /\ \A k \in 1..Len(S) : WellFormed(S[k])
    BY <2>2, <2>3
  <2>7. StatementOK(S)
    BY <2>4, <2>6, SecondGuards
  <2> QED BY <2>5, <2>7
<1>49. StatementOK(Statement["select"])
  BY HandlersOK, AccessChecked, SixNodes DEF Statement
<1>50. StatementOK(Statement["select_some"])
  BY HandlersOK, AccessChecked, SixNodes DEF Statement
<1>51. StatementOK(Statement["select_head"])
  BY HandlersOK, AccessChecked, SixNodes DEF Statement
<1>52. StatementOK(Statement["show"])
  BY HandlersOK, AccessChecked, OneNodes DEF Statement
<1>53. StatementOK(Statement["help"])
  <2> DEFINE S == <<enter_help, exit_help_xxx>>
  <2>1. Len(S) = 2 /\ \A k \in 1..2 : WellFormed(S[k]) /\ Harmless(S[k])
    BY HandlersOK, BeforeCheck
  <2>2. Statement["help"] = S
    BY DEF Statement
  <2> HIDE DEF S
  <2>3. Len(S) \in Nat \ {0} /\ \A k \in 1..Len(S) : WellFormed(S[k]) /\ Harmless(S[k])
    BY <2>1
  <2>4. StatementOK(S)
    BY <2>3, NothingToGuard
  <2> QED BY <2>2, <2>4
<1>54. StatementOK(Statement["calc"])
  <2> DEFINE S == <<exit_calc_stmt>>
  <2>1. Len(S) = 1 /\ \A k \in 1..1 : WellFormed(S[k]) /\ Harmless(S[k])
    BY HandlersOK, BeforeCheck
  <2>2. Statement["calc"] = S
    BY DEF Statement
  <2> HIDE DEF S
  <2>3. Len(S) \in Nat \ {0} /\ \A k \in 1..Len(S) : WellFormed(S[k]) /\ Harmless(S[k])
    BY <2>1
  <2>4. StatementOK(S)
    BY <2>3, NothingToGuard
  <2> QED BY <2>2, <2>4
<1> QED
  BY StatementNames, <1>1, <1>2, <1>3, <1>4, <1>5, <1>6, <1>7, <1>8, <1>9,
     <1>10, <1>11, <1>12, <1>13, <1>14, <1>15, <1>16, <1>17, <1>18, <1>19,
     <1>20, <1>21, <1>22, <1>23, <1>24, <1>25, <1>26, <1>27, <1>28, <1>29,
     <1>30, <1>31, <1>32, <1>33, <1>34, <1>35, <1>36, <1>37, <1>38, <1>39,
     <1>40, <1>41, <1>42, <1>43, <1>44, <1>45, <1>46, <1>47, <1>48, <1>49,
     <1>50, <1>51, <1>52, <1>53, <1>54

-----------------------------------------------------------------------------
(* The inductive invariant.                                                *)

TaskFields == {"st", "pc", "n", "limit", "prom", "nulls", "ref", "ans", "did"}

(* A query on one server: its state tells the references of the handle, if *)
(* it is answered, and that there is a node to go on with.                 *)
TaskInv(q, t) ==
    /\ DOMAIN t = TaskFields
    /\ t.st \in {"none", "parse", "node", "wait", "work", "done", "lost"}
    /\ t.ref \in 0..2
    /\ t.st \in {"none", "done"} => t.ref = 0
    /\ t.st \in {"parse", "node"} => t.ref = 1
    /\ t.st \in {"wait", "work"} => t.ref = 2
    /\ t.st # "done" => t.ans = <<>>
    /\ t.st = "done" => t.ans \in {<<"ok">>, <<"error">>}
    /\ t.st \in {"node", "wait", "work"} => t.pc \in 1..Len(Nodes(q))
    /\ t.st = "wait" => Nodes(q)[t.pc].cb \in CallBacks

TasksInv == \A q \in Queries, s \in Servers : TaskInv(q, task[q][s])

NotQueued(q) == \A s \in Servers : \A i \in 1..Len(fifo[s]) : fifo[s][i] # q

(* Nobody has heard of a query before the client sends it.                 *)
FreshInv ==
    \A q \in Queries : qry[q].name = "none" =>
        /\ ~qry[q].denied /\ NotQueued(q)
        /\ \A s \in Servers : task[q][s] = NoTask

(* The master did not get past a node that checks the rights of the user.  *)
DeniedTask(q, t) ==
    /\ ~t.did /\ t.st \in {"parse", "node", "done"}
    /\ t.st = "node" => \A j \in 1..(t.pc - 1) : ~Nodes(q)[j].acc

(* A query of a user without the rights stays on its master.               *)
DeniedInv ==
    \A q \in Queries : qry[q].denied =>
        /\ NotQueued(q)
        /\ DeniedTask(q, task[q][Masters[q]])
        /\ \A s \in Servers \ {Masters[q]} : task[q][s].st = "none" /\ ~task[q][s].did

Objects == {"absent", "old", "new"}
Names == (DOMAIN Statement) \cup {"none"}
QueueInv == fifo \in [Servers -> Seq(Queries)]
QryInv == qry \in [Queries -> [plan : Names, name : Names, denied : BOOLEAN,
                               target : Servers \cup {NoServer}]]
ShapeInv ==
    /\ obj \in [Servers -> Objects]
    /\ saved \in [Servers -> Objects]
    /\ cpu \in [Servers -> {0} \cup Queries]
    /\ DOMAIN task = Queries
    /\ \A q \in Queries : DOMAIN task[q] = Servers

QueryInv == ShapeInv /\ QueueInv /\ QryInv /\ TasksInv /\ FreshInv /\ DeniedInv

-----------------------------------------------------------------------------
(* What the operators on a query return.                                   *)

(* u has the state, references and answer of t; only the numbers differ.   *)
Like(t, u) ==
    /\ DOMAIN u = TaskFields
    /\ u.st = t.st /\ u.pc = t.pc /\ u.ref = t.ref /\ u.ans = t.ans /\ u.did = t.did

(* The server of a client is a server.                                     *)
LEMMA MasterType == \A q \in Queries : Masters[q] \in Servers
  BY QueryAssumption

LEMMA NoTaskOK ==
    /\ DOMAIN NoTask = TaskFields /\ NoTask.st = "none" /\ NoTask.ref = 0
    /\ NoTask.ans = <<>> /\ ~NoTask.did /\ NoTask.pc = 0
  BY DEF NoTask, TaskFields

LEMMA OneAnswer == \A a : Append(<<>>, a) = <<a>>
  OBVIOUS

LEMMA AnswerNotEmpty == \A a : <<a>> # <<>>
  OBVIOUS

(* The answer releases the reference of the query itself.                  *)
LEMMA AnswerOK ==
    ASSUME NEW q \in Queries, NEW t, NEW a \in {"ok", "error"},
           DOMAIN t = TaskFields, t.ref = 1, t.ans = <<>>
    PROVE  /\ TaskInv(q, Answer(t, a))
           /\ Answer(t, a).did = t.did /\ Answer(t, a).st = "done"
  BY OneAnswer DEF Answer, TaskInv, TaskFields

LEMMA NodesType ==
    ASSUME QryInv, NEW q \in Queries, qry[q].name # "none"
    PROVE  StatementOK(Nodes(q))
  BY StatementsOK DEF Nodes, QryInv, Names

(* siridb_nodes_next goes on with the next node or answers.                *)
LEMMA NextNodeOK ==
    ASSUME QryInv, NEW q \in Queries, qry[q].name # "none", NEW t,
           DOMAIN t = TaskFields, t.ref = 1, t.ans = <<>>, t.pc \in 1..Len(Nodes(q))
    PROVE  /\ TaskInv(q, NextNode(q, t))
           /\ NextNode(q, t).did = t.did
           /\ \/ NextNode(q, t).st = "done"
              \/ NextNode(q, t).st = "node" /\ NextNode(q, t).pc = t.pc + 1
<1>1. Len(Nodes(q)) \in Nat
  BY NodesType DEF StatementOK
<1>2. CASE t.pc = Len(Nodes(q))
  BY <1>2, AnswerOK DEF NextNode, siridb_send_query_result
<1>3. CASE t.pc # Len(Nodes(q))
  <2> DEFINE u == [t EXCEPT !.st = "node", !.pc = t.pc + 1]
  <2>1. NextNode(q, t) = u
    BY <1>3 DEF NextNode
  <2>2. /\ DOMAIN u = TaskFields /\ u.st = "node" /\ u.pc = t.pc + 1
        /\ u.ref = 1 /\ u.ans = <<>> /\ u.did = t.did
    BY DEF TaskFields
  <2> HIDE DEF u
  <2>3. u.pc \in 1..Len(Nodes(q))
    BY <1>1, <1>3, <2>2
  <2> QED BY <2>1, <2>2, <2>3 DEF TaskInv
<1> QED BY <1>2, <1>3

(* Counting touches neither the state nor the references.                  *)
LEMMA PlusLike ==
    ASSUME NEW q, NEW t, NEW X, DOMAIN t = TaskFields
    PROVE  Like(t, Plus(q, t, X))
  BY DEF Plus, Like, TaskFields

LEMMA PlusRowsLike ==
    ASSUME NEW q, NEW t, NEW X, DOMAIN t = TaskFields
    PROVE  \A u \in PlusRows(q, t, X) : Like(t, u)
  BY DEF PlusRows, Like, TaskFields

LEMMA CountLike ==
    ASSUME NEW q, NEW s, NEW t, NEW node, WellFormed(node), DOMAIN t = TaskFields
    PROVE  \A u \in IF node.count = "rows" THEN CountRows(q, t, node)
                    ELSE {Count(q, s, t, node)} : Like(t, u)
<1>1. CASE node.count = "rows"
  BY <1>1 DEF CountRows, Like, TaskFields
<1>2. CASE node.count # "rows"
  <2>1. node.count \in {"none", "self", "row", "all"}
    BY <1>2 DEF WellFormed
  <2>2. Like(t, Count(q, s, t, node))
    BY <2>1 DEF Count, Like, TaskFields
  <2> QED BY <1>2, <2>2
<1> QED BY <1>1, <1>2

(* Promises take a reference of the handle.                                *)
LEMMA SentOK ==
    ASSUME NEW t, NEW X, NEW k, DOMAIN t = TaskFields
    PROVE  LET u == Sent(t, X, k)
           IN  /\ DOMAIN u = TaskFields /\ u.pc = t.pc /\ u.ref = t.ref + 1
               /\ u.ans = t.ans /\ u.did = t.did
  BY DEF Sent, TaskFields

LEMMA ForwardSends ==
    ASSUME NEW q, NEW s, NEW t, NEW u \in siridb_query_forward(q, s, t)
    PROVE  \E X, k : u = Sent(t, X, k)
  BY DEF siridb_query_forward, siridb_servers_send_pkg, siridb_pools_send_pkg

(* ON_PROMISES gives it back.                                              *)
LEMMA OnPromisesOK ==
    ASSUME NEW t, DOMAIN t = TaskFields, t.ref = 2
    PROVE  LET u == OnPromises(t)
           IN  /\ DOMAIN u = TaskFields /\ u.pc = t.pc /\ u.ref = 1
               /\ u.ans = t.ans /\ u.did = t.did
  BY DEF OnPromises, TaskFields

(* A query whose promises are there: the handle is referenced by the query *)
(* and by the promises, and it is not answered.                            *)
Bound(q, t) ==
    /\ DOMAIN t = TaskFields /\ t.ref = 2 /\ t.ans = <<>>
    /\ t.pc \in 1..Len(Nodes(q))
    /\ Nodes(q)[t.pc].cb \in CallBacks

(* Whatever call-back comes, and whatever the servers answered, the        *)
(* reference of the promises is released, and the query is answered once   *)
(* or goes on.                                                             *)
LEMMA CallbackOK ==
    ASSUME QryInv, NEW q \in Queries, qry[q].name # "none", NEW t, Bound(q, t)
    PROVE  \A u \in Callback(q, t) : TaskInv(q, u)
<1> DEFINE v == OnPromises(t)
<1>1. DOMAIN v = TaskFields /\ v.pc = t.pc /\ v.ref = 1 /\ v.ans = <<>>
  BY OnPromisesOK DEF Bound
<1> HIDE DEF v
<1>2. v.pc \in 1..Len(Nodes(q))
  BY <1>1 DEF Bound
<1>3. TaskInv(q, siridb_query_send_error(v))
  BY <1>1, AnswerOK DEF siridb_query_send_error
<1>4. \A w : Like(v, w) => TaskInv(q, NextNode(q, w))
  BY <1>1, <1>2, NextNodeOK DEF Like
<1>5. TaskInv(q, NextNode(q, v))
  BY <1>1, <1>2, NextNodeOK
<1>6. TaskInv(q, NextNode(q, Plus(q, v, Oks(t))))
  BY <1>1, <1>4, PlusLike
<1>7. TaskInv(q, Work(Plus(q, v, Oks(t))))
  <2> DEFINE w == Plus(q, v, Oks(t))
  <2>1. Like(v, w)
    BY <1>1, PlusLike
  <2> HIDE DEF w
  <2>2. /\ DOMAIN Work(w) = TaskFields /\ Work(w).st = "work" /\ Work(w).ref = 2
        /\ Work(w).ans = <<>> /\ Work(w).pc = v.pc
    BY <1>1, <2>1 DEF Work, Like, TaskFields
  <2>3. TaskInv(q, Work(w))
    BY <1>2, <2>2 DEF TaskInv
  <2> QED BY <2>3 DEF w
<1>8. \A u \in on_list_xxx_response(q, t) : TaskInv(q, u)
  <2>1. \A w \in PlusRows(q, v, Oks(t)) : TaskInv(q, NextNode(q, w))
    BY <1>1, <1>4, PlusRowsLike
  <2> QED BY <1>3, <2>1 DEF on_list_xxx_response, v
<1>9. /\ TaskInv(q, on_update_xxx_response(q, t))
      /\ TaskInv(q, on_ack_response(q, t))
  BY <1>3, <1>5 DEF on_update_xxx_response, on_ack_response, v
<1>10. /\ TaskInv(q, on_count_xxx_response(q, t))
       /\ TaskInv(q, on_drop_series_response(q, t))
       /\ TaskInv(q, on_drop_shards_response(q, t))
       /\ TaskInv(q, on_tag_response(q, t))
       /\ TaskInv(q, on_alter_xxx_response(q, t))
       /\ TaskInv(q, on_groups_response(q, t))
       /\ TaskInv(q, on_tags_response(q, t))
  BY <1>3, <1>6 DEF on_count_xxx_response, on_drop_series_response,
     on_drop_shards_response, on_tag_response, on_alter_xxx_response,
     on_groups_response, on_tags_response, v
<1>11. TaskInv(q, on_select_response(q, t))
  BY <1>3, <1>7 DEF on_select_response, v
<1>12. Nodes(q)[t.pc].cb \in CallBacks
  BY DEF Bound
<1> QED
  BY <1>8, <1>9, <1>10, <1>11, <1>12 DEF Callback, CallBacks

(* The call-back also runs when there is nobody to wait for.               *)
LEMMA PromisesCheckOK ==
    ASSUME QryInv, NEW q \in Queries, qry[q].name # "none", NEW t, Bound(q, t)
    PROVE  \A u \in SIRINET_PROMISES_CHECK(q, t) : TaskInv(q, u)
<1>1. TaskInv(q, [t EXCEPT !.st = "wait"])
  BY DEF Bound, TaskInv, TaskFields
<1> QED BY <1>1, CallbackOK DEF SIRINET_PROMISES_CHECK

-----------------------------------------------------------------------------
(* The initial states, and the steps.                                      *)

(* All queries are still with their clients.                               *)
LEMMA InvInit == Init => QueryInv
<1> SUFFICES ASSUME Init PROVE QueryInv
  OBVIOUS
<1>1. ShapeInv
  BY DEF Init, ShapeInv, Objects
<1>2. QueueInv /\ \A q \in Queries : NotQueued(q)
  BY DEF Init, QueueInv, NotQueued
<1>3. QryInv /\ \A q \in Queries : qry[q].name = "none" /\ ~qry[q].denied
  <2> PICK f \in Plans : qry = [q \in Queries |->
           [plan |-> f[q], name |-> "none", denied |-> FALSE, target |-> NoServer]]
    BY DEF Init
  <2>1. \A q \in Queries : f[q] \in Names
    BY PlansAssumption DEF Names
  <2> QED BY <2>1 DEF QryInv, Names
<1>4. \A q \in Queries, s \in Servers : task[q][s] = NoTask
  BY DEF Init
<1>5. TasksInv
  BY <1>4, NoTaskOK DEF TasksInv, TaskInv
<1> QED BY <1>1, <1>2, <1>3, <1>4, <1>5 DEF QueryInv, FreshInv, DeniedInv

(* A step of one query on one server: all other queries, and this query on *)
(* all other servers, are as they were.                                    *)
LEMMA BecomeOK ==
    ASSUME QueryInv, NEW q \in Queries, NEW s \in Servers, NEW t, NEW stays,
           Become(q, s, t, stays), UNCHANGED qry, qry[q].name # "none",
           TaskInv(q, t),
           qry[q].denied => s = Masters[q] /\ DeniedTask(q, t),
           obj' \in [Servers -> Objects], saved' \in [Servers -> Objects],
           QueueInv', \A r \in Queries : r # q /\ NotQueued(r) => NotQueued(r)',
           qry[q].denied => NotQueued(q)'
    PROVE  QueryInv'
<1> USE DEF QueryInv
<1>1. /\ task'[q][s] = t
      /\ \A r \in Queries, x \in Servers : r # q \/ x # s => task'[r][x] = task[r][x]
      /\ DOMAIN task' = Queries /\ \A r \in Queries : DOMAIN task'[r] = Servers
  BY DEF Become, ShapeInv
<1>2. cpu' \in [Servers -> {0} \cup Queries]
  BY DEF Become, ShapeInv
<1>3. ShapeInv'
  BY <1>1, <1>2 DEF ShapeInv
<1>4. QryInv'
  BY DEF QryInv
<1>5. \A r \in Queries : Nodes(r)' = Nodes(r)
  BY DEF Nodes
<1>6. TasksInv'
  <2> SUFFICES ASSUME NEW r \in Queries, NEW x \in Servers PROVE TaskInv(r, task[r][x])'
    BY DEF TasksInv
  <2>1. TaskInv(r, task'[r][x])
    BY <1>1 DEF TasksInv
  <2> QED BY <2>1, <1>5 DEF TaskInv
<1>7. FreshInv'
  BY <1>1 DEF FreshInv
<1>8. DeniedInv'
  <2> SUFFICES ASSUME NEW r \in Queries, qry[r].denied
               PROVE  /\ NotQueued(r)'
                      /\ DeniedTask(r, task[r][Masters[r]])'
                      /\ \A x \in Servers \ {Masters[r]} :
                            task'[r][x].st = "none" /\ ~task'[r][x].did
    BY DEF DeniedInv
  <2>1. NotQueued(r)'
    BY DEF DeniedInv
  <2>2. DeniedTask(r, task'[r][Masters[r]])
    BY <1>1, MasterType DEF DeniedInv
  <2>3. DeniedTask(r, task[r][Masters[r]])'
    BY <2>2, <1>5 DEF DeniedTask
  <2>4. \A x \in Servers \ {Masters[r]} : task'[r][x].st = "none" /\ ~task'[r][x].did
    BY <1>1 DEF DeniedInv
  <2> QED BY <2>1, <2>3, <2>4
<1> QED BY <1>3, <1>4, <1>6, <1>7, <1>8

(* A step of a query that leaves the objects and the queues alone.         *)
LEMMA BecomeSame ==
    ASSUME QueryInv, NEW q \in Queries, NEW s \in Servers, NEW t, NEW stays,
           Become(q, s, t, stays), UNCHANGED <<qry, obj, saved, fifo>>,
           qry[q].name # "none", TaskInv(q, t),
           qry[q].denied => s = Masters[q] /\ DeniedTask(q, t)
    PROVE  QueryInv'
<1>1. obj' \in [Servers -> Objects] /\ saved' \in [Servers -> Objects]
  BY DEF QueryInv, ShapeInv
<1>2. QueueInv' /\ \A r \in Queries : NotQueued(r) => NotQueued(r)'
  BY DEF QueryInv, QueueInv, NotQueued
<1>3. qry[q].denied => NotQueued(q)'
  BY <1>2 DEF QueryInv, DeniedInv
<1> QED BY <1>1, <1>2, <1>3, BecomeOK

(* A query that runs on a server was sent by a client, and if its user has *)
(* no right to it then the server is its master.                           *)
LEMMA Running ==
    ASSUME QueryInv, NEW q \in Queries, NEW s \in Servers, task[q][s].st # "none"
    PROVE  /\ qry[q].name # "none"
           /\ StatementOK(Nodes(q))
           /\ qry[q].denied => s = Masters[q] /\ DeniedTask(q, task[q][s])
           /\ TaskInv(q, task[q][s])
<1>1. qry[q].name # "none"
  BY NoTaskOK DEF QueryInv, FreshInv
<1>2. StatementOK(Nodes(q))
  BY <1>1, NodesType DEF QueryInv
<1>3. qry[q].denied => s = Masters[q] /\ DeniedTask(q, task[q][s])
  BY DEF QueryInv, DeniedInv
<1> QED BY <1>1, <1>2, <1>3 DEF QueryInv, TasksInv

(* A query comes: a denied one is at the start of its statement, and no    *)
(* other server knows of it.                                               *)
LEMMA ClientQueryInv ==
    ASSUME QueryInv, NEW q \in Queries, ClientQuery(q)
    PROVE  QueryInv'
<1> DEFINE m == Masters[q]
           t == siridb_query_run(task[q][m])
<1>1. m \in Servers
  BY MasterType
<1>2. /\ qry[q].name = "none" /\ ~qry[q].denied /\ NotQueued(q)
      /\ \A s \in Servers : task[q][s] = NoTask
  BY DEF ClientQuery, QueryInv, FreshInv
<1>3. PICK name \in {qry[q].plan} \ {"none"}, denied \in BOOLEAN, x \in Servers :
        qry' = [qry EXCEPT ![q] =
            [qry[q] EXCEPT !.name = name, !.denied = denied, !.target = x]]
  BY DEF ClientQuery
<1>4. /\ QryInv'
      /\ qry'[q].name # "none"
      /\ \A r \in Queries : r # q => qry'[r] = qry[r]
  BY <1>3 DEF QueryInv, QryInv
<1>5. /\ DOMAIN t = TaskFields /\ t.st = "parse" /\ t.ref = 1
      /\ t.ans = <<>> /\ ~t.did
  BY <1>1, <1>2, NoTaskOK DEF siridb_query_run, TaskFields
<1> HIDE DEF t
<1>6. /\ task'[q][m] = t
      /\ \A r \in Queries, y \in Servers : r # q \/ y # m => task'[r][y] = task[r][y]
      /\ DOMAIN task' = Queries /\ \A r \in Queries : DOMAIN task'[r] = Servers
  BY <1>1 DEF ClientQuery, QueryInv, ShapeInv, t
<1>7. UNCHANGED <<obj, saved, fifo, cpu>>
  BY DEF ClientQuery
<1>8. ShapeInv' /\ QueueInv' /\ \A r \in Queries : NotQueued(r)' <=> NotQueued(r)
  BY <1>6, <1>7 DEF QueryInv, ShapeInv, QueueInv, NotQueued
<1>9. \A r \in Queries : r # q => Nodes(r)' = Nodes(r)
  BY <1>4 DEF Nodes
<1>10. TasksInv'
  <2> SUFFICES ASSUME NEW r \in Queries, NEW y \in Servers
               PROVE  TaskInv(r, task[r][y])'
    BY DEF TasksInv
  <2>1. CASE r # q
    <3>1. TaskInv(r, task'[r][y])
      BY <1>6, <2>1 DEF QueryInv, TasksInv
    <3> QED BY <3>1, <1>9, <2>1 DEF TaskInv
  <2>2. CASE r = q /\ y # m
    <3>1. task'[r][y] = NoTask
      BY <1>2, <1>6, <2>2
    <3> QED BY <3>1, NoTaskOK DEF TaskInv
  <2>3. CASE r = q /\ y = m
    BY <1>5, <1>6, <2>3 DEF TaskInv
  <2> QED BY <2>1, <2>2, <2>3
<1>11. FreshInv'
  BY <1>4, <1>6, <1>8 DEF QueryInv, FreshInv
<1>12. DeniedInv'
  <2> SUFFICES ASSUME NEW r \in Queries, qry'[r].denied
               PROVE  /\ NotQueued(r)'
                      /\ DeniedTask(r, task[r][Masters[r]])'
                      /\ \A y \in Servers \ {Masters[r]} :
                            task'[r][y].st = "none" /\ ~task'[r][y].did
    BY DEF DeniedInv
  <2>1. CASE r = q
    BY <1>2, <1>5, <1>6, <1>8, <2>1, NoTaskOK DEF DeniedTask
  <2>2. CASE r # q
    <3>1. qry[r].denied
      BY <1>4, <2>2
    <3>2. task'[r] = task[r] \/ \A y \in Servers : task'[r][y] = task[r][y]
      BY <1>6, <2>2
    <3>3. NotQueued(r)'
      BY <1>8, <3>1 DEF QueryInv, DeniedInv
    <3>4. DeniedTask(r, task'[r][Masters[r]])
      BY <3>1, <3>2, MasterType DEF QueryInv, DeniedInv
    <3>5. DeniedTask(r, task[r][Masters[r]])'
      BY <3>4, <1>9, <2>2 DEF DeniedTask
    <3>6. \A y \in Servers \ {Masters[r]} : task'[r][y].st = "none" /\ ~task'[r][y].did
      BY <3>1, <3>2 DEF QueryInv, DeniedInv
    <3> QED BY <3>3, <3>5, <3>6
  <2> QED BY <2>1, <2>2
<1> QED BY <1>4, <1>8, <1>10, <1>11, <1>12 DEF QueryInv

(* The text is parsed, or has an error.                                    *)
LEMMA QueryParseInv ==
    ASSUME QueryInv, NEW q \in Queries, NEW s \in Servers, QUERY_parse(q, s)
    PROVE  QueryInv'
<1> DEFINE t == task[q][s]
           first == [t EXCEPT !.st = "node", !.pc = 1]
<1>1. t.st = "parse" /\ UNCHANGED <<qry, obj, saved, fifo>>
  BY DEF QUERY_parse
<1>2. /\ qry[q].name # "none" /\ StatementOK(Nodes(q)) /\ TaskInv(q, t)
      /\ qry[q].denied => s = Masters[q] /\ DeniedTask(q, t)
  BY <1>1, Running
<1>3. DOMAIN t = TaskFields /\ t.ref = 1 /\ t.ans = <<>>
  BY <1>1, <1>2 DEF TaskInv
<1>4. TaskInv(q, first) /\ first.did = t.did /\ first.pc = 1
  BY <1>2, <1>3 DEF TaskInv, TaskFields, StatementOK
<1>5. \/ Become(q, s, first, FALSE)
      \/ Become(q, s, siridb_query_send_error(t), FALSE)
  BY DEF QUERY_parse
<1>6. CASE Become(q, s, first, FALSE)
  <2>1. qry[q].denied => DeniedTask(q, first)
    BY <1>2, <1>3, <1>4 DEF DeniedTask, TaskFields
  <2> HIDE DEF first
  <2> QED BY <1>1, <1>2, <1>4, <1>6, <2>1, BecomeSame
<1>7. CASE Become(q, s, siridb_query_send_error(t), FALSE)
  <2>1. /\ TaskInv(q, siridb_query_send_error(t))
        /\ qry[q].denied => DeniedTask(q, siridb_query_send_error(t))
    BY <1>2, <1>3, AnswerOK DEF siridb_query_send_error, DeniedTask
  <2> QED BY <1>1, <1>2, <1>7, <2>1, BecomeSame
<1> QED BY <1>5, <1>6, <1>7

(* The master of a query without rights has not got past the check, so its *)
(* handler changes nothing and asks nobody.                                *)
LEMMA DeniedHandler ==
    ASSUME QueryInv, NEW q \in Queries, NEW s \in Servers, task[q][s].st = "node",
           qry[q].denied, ~Refused(q, s, Nodes(q)[task[q][s].pc])
    PROVE  /\ Harmless(Nodes(q)[task[q][s].pc])
           /\ s = Masters[q] /\ ~task[q][s].did
<1> DEFINE t == task[q][s]
           node == Nodes(q)[t.pc]
<1>1. StatementOK(Nodes(q)) /\ TaskInv(q, t) /\ s = Masters[q] /\ DeniedTask(q, t)
  BY Running
<1>2. t.pc \in 1..Len(Nodes(q)) /\ Len(Nodes(q)) \in Nat
  BY <1>1 DEF TaskInv, StatementOK
<1>3. ~node.acc
  BY <1>1 DEF Refused, IsMaster
<1>4. \A j \in 1..t.pc : ~Nodes(q)[j].acc
  BY <1>1, <1>2, <1>3 DEF DeniedTask
<1> QED BY <1>1, <1>2, <1>4 DEF StatementOK, Guarded, DeniedTask

(* A handler that makes its change marks the query.                        *)
LEMMA DoingOK ==
    ASSUME NEW t, NEW node, DOMAIN t = TaskFields
    PROVE  LET u == Doing(t, node)
           IN  /\ DOMAIN u = TaskFields
               /\ u.st = t.st /\ u.pc = t.pc /\ u.ref = t.ref /\ u.ans = t.ans
               /\ u.n = t.n /\ u.limit = t.limit
               /\ u.did <=> t.did \/ node.eff # "none"
  BY DEF Doing, TaskFields

(* A handler of which the change cannot be written to disk.                *)
LEMMA SaveFailsInv ==
    ASSUME QueryInv, NEW q \in Queries, NEW s \in Servers, SaveFails(q, s)
    PROVE  QueryInv'
<1> DEFINE t == task[q][s]
           node == Nodes(q)[t.pc]
           d == Doing(t, node)
<1>1. /\ t.st = "node" /\ ~Refused(q, s, node)
      /\ Become(q, s, siridb_query_send_error(d), FALSE)
      /\ obj' = [obj EXCEPT ![s] = Effect(node.eff, obj[s])]
  BY DEF SaveFails
<1>2. UNCHANGED qry /\ UNCHANGED saved /\ UNCHANGED fifo
  BY DEF SaveFails
<1>3. /\ qry[q].name # "none" /\ TaskInv(q, t) /\ StatementOK(Nodes(q))
      /\ qry[q].denied => s = Masters[q] /\ DeniedTask(q, t)
  BY <1>1, Running
<1>4. /\ DOMAIN t = TaskFields /\ t.ref = 1 /\ t.ans = <<>>
      /\ t.pc \in 1..Len(Nodes(q))
  BY <1>1, <1>3 DEF TaskInv
<1>5. WellFormed(node)
  BY <1>3, <1>4 DEF StatementOK
<1>6. /\ DOMAIN d = TaskFields /\ d.ref = 1 /\ d.ans = <<>>
      /\ d.did <=> t.did \/ node.eff # "none"
  BY <1>4, DoingOK
<1>7. qry[q].denied => ~d.did /\ s = Masters[q]
  BY <1>1, <1>6, DeniedHandler DEF Harmless
<1> HIDE DEF d
<1>8. /\ TaskInv(q, siridb_query_send_error(d))
      /\ qry[q].denied => DeniedTask(q, siridb_query_send_error(d))
  BY <1>6, <1>7, AnswerOK DEF siridb_query_send_error, DeniedTask
<1>9. Effect(node.eff, obj[s]) \in Objects
  BY <1>5 DEF Effect, WellFormed, Objects, QueryInv, ShapeInv
<1> HIDE DEF node
<1>10. obj' \in [Servers -> Objects] /\ saved' \in [Servers -> Objects]
  BY <1>1, <1>2, <1>9 DEF QueryInv, ShapeInv
<1>11. QueueInv' /\ \A r \in Queries : NotQueued(r) => NotQueued(r)'
  BY <1>2 DEF QueryInv, QueueInv, NotQueued
<1>12. qry[q].denied => NotQueued(q)'
  BY <1>11 DEF QueryInv, DeniedInv
<1> QED BY <1>1, <1>2, <1>3, <1>7, <1>8, <1>10, <1>11, <1>12, BecomeOK

(* A handler that ends in an error.                                        *)
LEMMA NodeFailsInv ==
    ASSUME QueryInv, NEW q \in Queries, NEW s \in Servers, NodeFails(q, s)
    PROVE  QueryInv'
<1> DEFINE t == task[q][s]
<1>1. /\ t.st = "node" /\ UNCHANGED <<qry, obj, saved, fifo>>
      /\ Become(q, s, siridb_query_send_error(t), FALSE)
  BY DEF NodeFails
<1>2. /\ qry[q].name # "none" /\ TaskInv(q, t)
      /\ qry[q].denied => s = Masters[q] /\ DeniedTask(q, t)
  BY <1>1, Running
<1>3. DOMAIN t = TaskFields /\ t.ref = 1 /\ t.ans = <<>>
  BY <1>1, <1>2 DEF TaskInv
<1>4. /\ TaskInv(q, siridb_query_send_error(t))
      /\ qry[q].denied => DeniedTask(q, siridb_query_send_error(t))
  BY <1>2, <1>3, AnswerOK DEF siridb_query_send_error, DeniedTask
<1> QED BY <1>1, <1>2, <1>4, BecomeSame

(* A query is put only into the queue of the server that runs it.          *)
LEMMA ReplicatedOK ==
    ASSUME QueueInv, NEW q \in Queries, NEW s \in Servers, NEW node,
           fifo' = Replicated(q, s, node)
    PROVE  QueueInv' /\ \A r \in Queries : r # q /\ NotQueued(r) => NotQueued(r)'
<1>1. CASE fifo' = fifo
  BY <1>1 DEF QueueInv, NotQueued
<1>2. CASE fifo' = [fifo EXCEPT ![s] = Append(fifo[s], q)]
  <2>1. QueueInv'
    BY <1>2 DEF QueueInv
  <2>2. ASSUME NEW r \in Queries, r # q, NotQueued(r),
               NEW x \in Servers, NEW i \in 1..Len(fifo'[x])
        PROVE  fifo'[x][i] # r
    <3>1. CASE x # s
      <4>1. fifo'[x] = fifo[x]
        BY <1>2, <3>1 DEF QueueInv
      <4> QED BY <2>2, <4>1 DEF NotQueued
    <3>2. CASE x = s
      <4>1. fifo[s] \in Seq(Queries) /\ fifo'[x] = Append(fifo[s], q)
        BY <1>2, <3>2 DEF QueueInv
      <4>2. CASE i = Len(fifo[s]) + 1
        BY <2>2, <4>1, <4>2
      <4>3. CASE i # Len(fifo[s]) + 1
        <5>1. i \in 1..Len(fifo[s]) /\ fifo'[x][i] = fifo[s][i]
          BY <4>1, <4>3
        <5> QED BY <2>2, <5>1 DEF NotQueued
      <4> QED BY <4>2, <4>3
    <3> QED BY <3>1, <3>2
  <2> QED BY <2>1, <2>2 DEF NotQueued
<1> QED BY <1>1, <1>2 DEF Replicated

(* A handler that runs.                                                    *)
LEMMA RunNodeInv ==
    ASSUME QueryInv, NEW q \in Queries, NEW s \in Servers, RunNode(q, s)
    PROVE  QueryInv'
<1> DEFINE t1 == task[q][s]
           node == Nodes(q)[t1.pc]
           t0 == [t1 EXCEPT !.did = t1.did \/ node.eff # "none"]
           Counts == IF node.count = "rows" THEN CountRows(q, t0, node)
                     ELSE {Count(q, s, t0, node)}
<1>1. t1.st = "node" /\ ~Refused(q, s, node) /\ UNCHANGED qry
  BY DEF RunNode
<1>2. /\ qry[q].name # "none" /\ StatementOK(Nodes(q)) /\ TaskInv(q, t1)
      /\ qry[q].denied => s = Masters[q] /\ DeniedTask(q, t1)
  BY <1>1, Running
<1>3. /\ DOMAIN t1 = TaskFields /\ t1.ref = 1 /\ t1.ans = <<>>
      /\ t1.pc \in 1..Len(Nodes(q)) /\ Len(Nodes(q)) \in Nat
  BY <1>1, <1>2 DEF TaskInv, StatementOK
<1>4. WellFormed(node)
  BY <1>2, <1>3 DEF StatementOK
<1>5. qry[q].denied => Harmless(node)
  BY <1>1, DeniedHandler
<1>6. /\ DOMAIN t0 = TaskFields /\ t0.ref = 1 /\ t0.ans = <<>> /\ t0.pc = t1.pc
      /\ qry[q].denied => ~t0.did
  BY <1>2, <1>3, <1>5 DEF TaskFields, Harmless, DeniedTask
<1>7. obj' \in [Servers -> Objects]
  <2>1. Effect(node.eff, obj[s]) \in Objects
    BY <1>4 DEF Effect, WellFormed, Objects, QueryInv, ShapeInv
  <2>2. obj' = [obj EXCEPT ![s] = Effect(node.eff, obj[s])]
    BY DEF RunNode
  <2> QED BY <2>1, <2>2 DEF QueryInv, ShapeInv
<1>8. saved' \in [Servers -> Objects]
  <2>1. saved' \in {saved, [saved EXCEPT ![s] = obj'[s]]}
    BY DEF RunNode
  <2> QED BY <1>7, <2>1 DEF QueryInv, ShapeInv
<1>9. PICK t \in Counts :
       IF IsMaster(q, s) /\ node.go = "forward" /\ (node.count = "row" => t.limit > 0)
       THEN \E sent \in siridb_query_forward(q, s, t) :
            \E u \in SIRINET_PROMISES_CHECK(q, sent) :
                /\ Become(q, s, u, StaysAfter(q, t))
                /\ fifo' = Replicated(q, s, node)
       ELSE IF node.go = "ack" /\ qry[q].target # s
       THEN /\ Become(q, s, [Sent(t, {qry[q].target}, 0) EXCEPT !.st = "wait"], FALSE)
            /\ UNCHANGED fifo
       ELSE /\ Become(q, s, NextNode(q, t), node.go = "next")
            /\ UNCHANGED fifo
  BY Zenon DEF RunNode, Doing
<1> HIDE DEF t0
<1>10. Like(t0, t)
  BY <1>4, <1>6, CountLike
<1> HIDE DEF Counts, node
<1>11. /\ DOMAIN t = TaskFields /\ t.ref = 1 /\ t.ans = <<>> /\ t.pc = t1.pc
       /\ qry[q].denied => ~t.did
  BY <1>6, <1>10 DEF Like
<1>12. UNCHANGED fifo =>
           /\ QueueInv' /\ \A r \in Queries : NotQueued(r) => NotQueued(r)'
           /\ qry[q].denied => NotQueued(q)'
  BY DEF QueryInv, QueueInv, NotQueued, DeniedInv
<1> DEFINE fwds == IsMaster(q, s) /\ node.go = "forward" /\ (node.count = "row" => t.limit > 0)
<1>13. CASE fwds
  <2>1. PICK sent \in siridb_query_forward(q, s, t) :
            \E u \in SIRINET_PROMISES_CHECK(q, sent) :
                /\ Become(q, s, u, StaysAfter(q, t))
                /\ fifo' = Replicated(q, s, node)
    BY <1>9, <1>13
  <2>2. PICK u \in SIRINET_PROMISES_CHECK(q, sent) :
                /\ Become(q, s, u, StaysAfter(q, t))
                /\ fifo' = Replicated(q, s, node)
    BY <2>1
  <2>3. PICK X, k : sent = Sent(t, X, k)
    BY ForwardSends
  <2>4. /\ DOMAIN sent = TaskFields /\ sent.pc = t1.pc /\ sent.ref = 2
        /\ sent.ans = <<>>
    BY <1>11, <2>3, SentOK
  <2>5. Bound(q, sent)
    BY <1>3, <1>4, <1>13, <2>4 DEF Bound, WellFormed, node
  <2>6. TaskInv(q, u)
    BY <1>2, <2>2, <2>5, PromisesCheckOK DEF QueryInv
  <2>7. ~qry[q].denied
    BY <1>5, <1>13 DEF Harmless
  <2>8. QueueInv' /\ \A r \in Queries : r # q /\ NotQueued(r) => NotQueued(r)'
    BY <2>2, ReplicatedOK DEF QueryInv
  <2> QED BY <1>1, <1>2, <1>7, <1>8, <2>2, <2>6, <2>7, <2>8, BecomeOK
<1>14. CASE ~fwds /\ node.go = "ack" /\ qry[q].target # s
  <2> DEFINE sent == Sent(t, {qry[q].target}, 0)
             u == [sent EXCEPT !.st = "wait"]
  <2>1. Become(q, s, u, FALSE) /\ UNCHANGED fifo
    BY <1>9, <1>14
  <2>2. /\ DOMAIN sent = TaskFields /\ sent.pc = t1.pc /\ sent.ref = 2
        /\ sent.ans = <<>>
    BY <1>11, SentOK
  <2> HIDE DEF sent
  <2>3. TaskInv(q, u)
    BY <1>3, <1>4, <1>14, <2>2 DEF TaskInv, TaskFields, WellFormed, node
  <2>4. ~qry[q].denied
    BY <1>5, <1>14 DEF Harmless
  <2> HIDE DEF u
  <2> QED BY <1>1, <1>2, <1>7, <1>8, <1>12, <2>1, <2>3, <2>4, BecomeOK
<1>15. CASE ~fwds /\ ~(node.go = "ack" /\ qry[q].target # s)
  <2> DEFINE u == NextNode(q, t)
  <2>1. Become(q, s, u, node.go = "next") /\ UNCHANGED fifo
    BY <1>9, <1>15
  <2>2. /\ TaskInv(q, u) /\ u.did = t.did
        /\ u.st = "done" \/ (u.st = "node" /\ u.pc = t.pc + 1)
    BY <1>2, <1>3, <1>11, NextNodeOK DEF QueryInv
  <2> HIDE DEF u
  <2>3. ASSUME qry[q].denied PROVE s = Masters[q] /\ DeniedTask(q, u)
    <3>1. s = Masters[q] /\ DeniedTask(q, t1)
      BY <1>2, <2>3
    <3>2. ~node.acc
      BY <1>1, <2>3, <3>1 DEF Refused, IsMaster, node
    <3>3. u.st = "node" => \A j \in 1..(u.pc - 1) : ~Nodes(q)[j].acc
      BY <1>1, <1>3, <1>11, <2>2, <3>1, <3>2 DEF DeniedTask, node
    <3> QED BY <1>11, <2>2, <2>3, <3>1, <3>3 DEF DeniedTask
  <2> QED BY <1>1, <1>2, <1>7, <1>8, <1>12, <2>1, <2>2, <2>3, BecomeOK
<1> QED BY <1>13, <1>14, <1>15

(* A package is only taken from a master that waits, and a master without  *)
(* the rights never waits.                                                 *)
LEMMA ReceiveInv ==
    ASSUME QueryInv, NEW q \in Queries, NEW x \in Servers, Receive(q, x)
    PROVE  QueryInv'
<1> DEFINE m == Masters[q]
           node == Nodes(q)[task[q][m].pc]
<1>1. /\ qry[q].name # "none" /\ task[q][m].st = "wait"
      /\ UNCHANGED <<obj, saved, qry>> /\ fifo' = Replicated(q, x, node)
  BY DEF Receive
<1>2. ~qry[q].denied
  BY <1>1 DEF QueryInv, DeniedInv, DeniedTask
<1>3. /\ obj' \in [Servers -> Objects] /\ saved' \in [Servers -> Objects]
      /\ QueueInv' /\ \A r \in Queries : r # q /\ NotQueued(r) => NotQueued(r)'
  BY <1>1, ReplicatedOK DEF QueryInv, ShapeInv
<1>4. \E t : TaskInv(q, t) /\ Become(q, x, t, FALSE)
  <2>1. CASE node.fwd = "groups" \/ node.go = "ack"
    <3>1. PICK a \in {"ok", "error"} :
            Become(q, x, [NoTask EXCEPT !.st = "done", !.ans = <<a>>,
                          !.n[x] = IF node.fwd = "groups" THEN 1 ELSE 0], FALSE)
      BY <2>1 DEF Receive
    <3> DEFINE u == [NoTask EXCEPT !.st = "done", !.ans = <<a>>,
                          !.n[x] = IF node.fwd = "groups" THEN 1 ELSE 0]
    <3>2. /\ DOMAIN u = TaskFields /\ u.st = "done" /\ u.ans = <<a>> /\ u.ref = 0
      BY NoTaskOK DEF TaskFields
    <3> HIDE DEF u
    <3>3. TaskInv(q, u)
      BY <3>2 DEF TaskInv
    <3> QED BY <3>1, <3>3 DEF u
  <2>2. CASE ~(node.fwd = "groups" \/ node.go = "ack")
    <3>1. Become(q, x, siridb_query_run(NoTask), FALSE)
      BY <2>2 DEF Receive
    <3>2. TaskInv(q, siridb_query_run(NoTask))
      BY NoTaskOK DEF TaskInv, siridb_query_run, TaskFields
    <3> QED BY <3>1, <3>2
  <2> QED BY <2>1, <2>2
<1> QED BY <1>1, <1>2, <1>3, <1>4, BecomeOK

(* An answer, a time-out or a lost connection: it may be the last one.     *)
LEMMA OnResponseInv ==
    ASSUME QueryInv, NEW q \in Queries, NEW x \in Servers, OnResponse(q, x)
    PROVE  QueryInv'
<1> DEFINE m == Masters[q]
           t == task[q][m]
<1>1. m \in Servers /\ t.st = "wait" /\ UNCHANGED <<qry, obj, saved, fifo>>
  BY MasterType DEF OnResponse
<1>2. qry[q].name # "none" /\ TaskInv(q, t) /\ ~qry[q].denied
  BY <1>1, Running DEF DeniedTask
<1>3. PICK a : \E u \in SIRINET_PROMISES_CHECK(q, [t EXCEPT !.prom[x] = a]) :
          Become(q, m, u, StaysAfter(q, t))
  BY Zenon DEF OnResponse
<1> DEFINE v == [t EXCEPT !.prom[x] = a]
<1>4. Bound(q, v)
  BY <1>1, <1>2 DEF Bound, TaskInv, TaskFields
<1> HIDE DEF v
<1>5. PICK u \in SIRINET_PROMISES_CHECK(q, v) : Become(q, m, u, StaysAfter(q, t))
  BY <1>3 DEF v
<1>6. TaskInv(q, u)
  BY <1>2, <1>4, <1>5, PromisesCheckOK DEF QueryInv
<1> QED BY <1>1, <1>2, <1>5, <1>6, BecomeSame

(* The work ends: its reference and, with an answer, that of the query.    *)
LEMMA WorkDoneInv ==
    ASSUME QueryInv, NEW q \in Queries, WorkDone(q)
    PROVE  QueryInv'
<1> DEFINE m == Masters[q]
           t == task[q][m]
           Less(u) == [u EXCEPT !.ref = u.ref - 1]
<1>1. m \in Servers /\ t.st = "work" /\ UNCHANGED <<qry, obj, saved, fifo>>
  BY MasterType DEF WorkDone
<1>2. /\ qry[q].name # "none" /\ TaskInv(q, t) /\ ~qry[q].denied
      /\ StatementOK(Nodes(q))
  BY <1>1, Running DEF DeniedTask
<1>3. /\ DOMAIN t = TaskFields /\ t.ref = 2 /\ t.ans = <<>>
      /\ t.pc \in 1..Len(Nodes(q)) /\ Len(Nodes(q)) \in Nat
  BY <1>1, <1>2 DEF TaskInv, StatementOK
<1>4. \A a \in {"ok", "error"} : TaskInv(q, Less(Answer(t, a)))
  BY <1>3, OneAnswer DEF TaskInv, Answer, TaskFields
<1>5. TaskInv(q, Less(NextNode(q, t)))
  <2>1. CASE t.pc = Len(Nodes(q))
    BY <1>4, <2>1 DEF NextNode, siridb_send_query_result
  <2>2. CASE t.pc # Len(Nodes(q))
    <3> DEFINE u == [t EXCEPT !.st = "node", !.pc = t.pc + 1]
    <3>1. NextNode(q, t) = u
      BY <2>2 DEF NextNode
    <3>2. /\ DOMAIN Less(u) = TaskFields /\ Less(u).st = "node" /\ Less(u).ref = 1
          /\ Less(u).ans = <<>> /\ Less(u).pc = t.pc + 1
      BY <1>3 DEF TaskFields
    <3>3. t.pc + 1 \in 1..Len(Nodes(q))
      BY <1>3, <2>2
    <3> HIDE DEF u, Less
    <3>4. TaskInv(q, Less(u))
      BY <3>2, <3>3 DEF TaskInv
    <3> QED BY <3>1, <3>4
  <2> QED BY <2>1, <2>2
<1>6. PICK u \in {NextNode(q, t), siridb_query_send_error(t)} :
        Become(q, m, Less(u), FALSE)
  BY DEF WorkDone
<1>7. TaskInv(q, Less(u))
  BY <1>4, <1>5, <1>6 DEF siridb_query_send_error
<1> QED BY <1>1, <1>2, <1>6, <1>7, BecomeSame

(* Only queries that were sent and allowed are in a queue.                 *)
LEMMA ReplicateInv ==
    ASSUME QueryInv, NEW s \in Servers, Replicate(s)
    PROVE  QueryInv'
<1> DEFINE q == Head(fifo[s])
<1>1. fifo[s] \in Seq(Queries) /\ fifo[s] # <<>> /\ UNCHANGED <<qry, obj, saved>>
  BY DEF Replicate, QueryInv, QueueInv
<1>2. 1 \in 1..Len(fifo[s]) /\ fifo[s][1] = q /\ q \in Queries
  BY <1>1
<1>3. ~NotQueued(q)
  BY <1>2 DEF NotQueued
<1>4. qry[q].name # "none" /\ ~qry[q].denied
  BY <1>2, <1>3 DEF QueryInv, FreshInv, DeniedInv
<1>5. PICK r \in Others(s) : Become(q, r, siridb_query_run(NoTask), FALSE)
  BY DEF Replicate
<1>6. r \in Servers
  <2>1. \E p \in PoolSet : s \in p
    BY DEF Servers
  <2>2. Pool(s) \in PoolSet
    BY <2>1 DEF Pool
  <2> QED BY <2>2 DEF Others, Servers
<1>7. TaskInv(q, siridb_query_run(NoTask))
  BY NoTaskOK DEF TaskInv, siridb_query_run, TaskFields
<1>8. fifo' = [fifo EXCEPT ![s] = Tail(fifo[s])]
  BY DEF Replicate
<1>9. QueueInv'
  BY <1>1, <1>8 DEF QueryInv, QueueInv
<1>10. ASSUME NEW c \in Queries, NotQueued(c) PROVE NotQueued(c)'
  <2> SUFFICES ASSUME NEW x \in Servers, NEW i \in 1..Len(fifo'[x])
               PROVE  fifo'[x][i] # c
    BY DEF NotQueued
  <2>1. CASE x # s
    <3>1. fifo'[x] = fifo[x]
      BY <1>8, <2>1 DEF QueryInv, QueueInv
    <3> QED BY <1>10, <3>1 DEF NotQueued
  <2>2. CASE x = s
    <3>1. fifo'[x] = Tail(fifo[s])
      BY <1>8, <2>2 DEF QueryInv, QueueInv
    <3>2. i + 1 \in 1..Len(fifo[s]) /\ fifo'[x][i] = fifo[s][i + 1]
      BY <1>1, <3>1
    <3> QED BY <1>10, <3>2 DEF NotQueued
  <2> QED BY <2>1, <2>2
<1>11. obj' \in [Servers -> Objects] /\ saved' \in [Servers -> Objects]
  BY <1>1 DEF QueryInv, ShapeInv
<1> HIDE DEF q
<1> QED BY <1>1, <1>2, <1>4, <1>5, <1>6, <1>7, <1>9, <1>10, <1>11, BecomeOK

(* The invariant does not depend on the status of the servers, nor on what *)
(* is on disk.                                                             *)
LEMMA NothingChanged ==
    ASSUME QueryInv, saved' \in [Servers -> Objects], UNCHANGED <<fifo, qry>>,
           UNCHANGED <<task, cpu, obj>>
    PROVE  QueryInv'
<1>1. ShapeInv' /\ QueueInv' /\ QryInv'
  BY DEF QueryInv, ShapeInv, QueueInv, QryInv
<1>2. \A q \in Queries : Nodes(q)' = Nodes(q) /\ (NotQueued(q)' <=> NotQueued(q))
  BY DEF Nodes, NotQueued
<1>3. TasksInv'
  BY <1>2 DEF QueryInv, TasksInv, TaskInv
<1>4. FreshInv'
  BY <1>2 DEF QueryInv, FreshInv
<1>5. DeniedInv'
  BY <1>2 DEF QueryInv, DeniedInv, DeniedTask
<1> QED BY <1>1, <1>3, <1>4, <1>5 DEF QueryInv

(* A server that stops loses its queries.  It is the master of none.       *)
LEMMA ChangeInv ==
    ASSUME QueryInv, NEW s \in Servers, Change(s)
    PROVE  QueryInv'
<1>1. PICK u \in {"accessible", "online", "offline"} :
        /\ u = "offline" => \A q \in Queries : ~IsMaster(q, s)
        /\ IF u = "offline"
           THEN /\ task' = [q \in Queries |-> [task[q] EXCEPT ![s] =
                      IF task[q][s].st \in {"none", "done"} THEN task[q][s]
                      ELSE [task[q][s] EXCEPT !.st = "lost"]]]
                /\ cpu' = [cpu EXCEPT ![s] = 0]
                /\ obj' = [obj EXCEPT ![s] = saved[s]]
           ELSE UNCHANGED <<task, cpu, obj>>
  BY DEF Change
<1>2. UNCHANGED <<saved, fifo, qry>>
  BY DEF Change
<1>3. QueueInv' /\ QryInv' /\ \A q \in Queries : NotQueued(q) => NotQueued(q)'
  BY <1>2 DEF QueryInv, QueueInv, QryInv, NotQueued
<1>4. \A q \in Queries : Nodes(q)' = Nodes(q)
  BY <1>2 DEF Nodes
<1>5. CASE u = "offline"
  <2> DEFINE Lost(t) == IF t.st \in {"none", "done"} THEN t ELSE [t EXCEPT !.st = "lost"]
  <2>1. /\ \A q \in Queries : task'[q][s] = Lost(task[q][s])
        /\ \A q \in Queries, x \in Servers : x # s => task'[q][x] = task[q][x]
        /\ DOMAIN task' = Queries /\ \A q \in Queries : DOMAIN task'[q] = Servers
    BY <1>1, <1>5 DEF QueryInv, ShapeInv
  <2>2. ShapeInv'
    BY <1>1, <1>2, <1>5, <2>1 DEF QueryInv, ShapeInv
  <2>3. \A q \in Queries : \A t : TaskInv(q, t) => TaskInv(q, Lost(t))
    BY DEF TaskInv, TaskFields
  <2>4. \A t : t.st = "none" => Lost(t) = t
    OBVIOUS
  <2> HIDE DEF Lost
  <2>5. TasksInv'
    <3> SUFFICES ASSUME NEW q \in Queries, NEW x \in Servers PROVE TaskInv(q, task[q][x])'
      BY DEF TasksInv
    <3>1. TaskInv(q, task'[q][x])
      BY <2>1, <2>3 DEF QueryInv, TasksInv
    <3> QED BY <3>1, <1>4 DEF TaskInv
  <2>6. FreshInv'
    BY <1>2, <1>3, <2>1, <2>4, NoTaskOK DEF QueryInv, FreshInv
  <2>7. DeniedInv'
    <3> SUFFICES ASSUME NEW q \in Queries, qry[q].denied
                 PROVE  /\ NotQueued(q)'
                        /\ DeniedTask(q, task[q][Masters[q]])'
                        /\ \A x \in Servers \ {Masters[q]} :
                              task'[q][x].st = "none" /\ ~task'[q][x].did
      BY <1>2 DEF DeniedInv
    <3>1. NotQueued(q)'
      BY <1>3 DEF QueryInv, DeniedInv
    <3>2. task'[q][Masters[q]] = task[q][Masters[q]]
      BY <1>1, <1>5, <2>1, MasterType DEF IsMaster
    <3>3. DeniedTask(q, task[q][Masters[q]])'
      BY <1>4, <3>2 DEF QueryInv, DeniedInv, DeniedTask
    <3>4. \A x \in Servers \ {Masters[q]} : task'[q][x] = task[q][x]
      BY <2>1, <2>4 DEF QueryInv, DeniedInv
    <3>5. \A x \in Servers \ {Masters[q]} : task'[q][x].st = "none" /\ ~task'[q][x].did
      BY <3>4 DEF QueryInv, DeniedInv
    <3> QED BY <3>1, <3>3, <3>5
  <2> QED BY <1>3, <2>2, <2>5, <2>6, <2>7 DEF QueryInv
<1>6. CASE u # "offline"
  <2>1. UNCHANGED <<task, cpu, obj>>
    BY <1>1, <1>6
  <2>2. saved' \in [Servers -> Objects]
    BY <1>2 DEF QueryInv, ShapeInv
  <2> QED BY <1>2, <2>1, <2>2, NothingChanged
<1> QED BY <1>5, <1>6

(* The tags are written to disk.                                           *)
LEMMA SaveTagsInv ==
    ASSUME QueryInv, NEW s \in Servers, SaveTags(s)
    PROVE  QueryInv'
<1>1. saved' = [saved EXCEPT ![s] = obj[s]]
  BY DEF SaveTags
<1>2. UNCHANGED <<fifo, qry>> /\ UNCHANGED <<task, cpu, obj>>
  BY DEF SaveTags
<1>3. saved' \in [Servers -> Objects]
  BY <1>1 DEF QueryInv, ShapeInv
<1> QED BY <1>2, <1>3, NothingChanged

(* Every step keeps the invariant.                                         *)
LEMMA InvNext == QueryInv /\ [Next]_vars => QueryInv'
<1> SUFFICES ASSUME QueryInv, [Next]_vars PROVE QueryInv'
  OBVIOUS
<1>1. CASE UNCHANGED vars
  <2>1. UNCHANGED saved /\ UNCHANGED <<fifo, qry>> /\ UNCHANGED <<task, cpu, obj>>
    BY <1>1 DEF vars
  <2>2. saved' \in [Servers -> Objects]
    BY <2>1 DEF QueryInv, ShapeInv
  <2> QED BY <2>1, <2>2, NothingChanged
<1>2. ASSUME NEW q \in Queries, ClientQuery(q) PROVE QueryInv'
  BY <1>2, ClientQueryInv
<1>3. ASSUME NEW q \in Queries, NEW s \in Servers, Step(q, s) PROVE QueryInv'
  BY <1>3, QueryParseInv, NodeFailsInv, SaveFailsInv, RunNodeInv DEF Step
<1>4. ASSUME NEW q \in Queries, NEW x \in Servers, OnResponse(q, x) \/ Receive(q, x)
      PROVE  QueryInv'
  BY <1>4, OnResponseInv, ReceiveInv
<1>5. ASSUME NEW q \in Queries, WorkDone(q) PROVE QueryInv'
  BY <1>5, WorkDoneInv
<1>6. ASSUME NEW s \in Servers, Replicate(s) \/ SaveTags(s) \/ Change(s) PROVE QueryInv'
  BY <1>6, ReplicateInv, SaveTagsInv, ChangeInv
<1> QED BY <1>1, <1>2, <1>3, <1>4, <1>5, <1>6 DEF Next, Progress

-----------------------------------------------------------------------------
(* Theorems.                                                               *)

(* The invariant holds in every state.                                     *)
THEOREM QueryInvHolds == Spec => []QueryInv
  BY InvInit, InvNext, PTL DEF Spec

(* A query is answered at most once on each server, and its handle is      *)
(* referenced by the query until then and by the promises or the work that *)
(* wait for it: no order of answers, errors, time-outs and stops frees the *)
(* handle while a call-back of listener.c can still come, or leaks it.     *)
THEOREM HandleOKHolds == Spec => []HandleOK
<1>1. QueryInv => HandleOK
  <2> SUFFICES ASSUME QueryInv PROVE TypeOK /\ AnsweredOnce
    BY DEF HandleOK
  <2>1. TypeOK
    BY DEF TypeOK, QueryInv, ShapeInv, TasksInv, TaskInv, Objects
  <2>2. AnsweredOnce
    <3> SUFFICES ASSUME NEW q \in Queries, NEW s \in Servers
                 PROVE  LET t == task[q][s] IN
                        /\ Len(t.ans) <= 1 /\ (t.ans # <<>> <=> t.st = "done")
                        /\ t.st # "lost" => t.ref = (CASE t.st \in {"none", "done"} -> 0
                                                      [] t.st \in {"wait", "work"} -> 2
                                                      [] OTHER -> 1)
      BY DEF AnsweredOnce
    <3>1. TaskInv(q, task[q][s])
      BY DEF QueryInv, TasksInv
    <3>2. CASE task[q][s].st = "done"
      <4>1. PICK a : task[q][s].ans = <<a>>
        BY <3>1, <3>2 DEF TaskInv
      <4>2. task[q][s].ans # <<>>
        BY <4>1, AnswerNotEmpty
      <4>3. Len(task[q][s].ans) = 1
        BY <4>1
      <4> QED BY <3>1, <3>2, <4>2, <4>3 DEF TaskInv
    <3>3. CASE task[q][s].st # "done"
      BY <3>1, <3>3 DEF TaskInv
    <3> QED BY <3>2, <3>3
  <2> QED BY <2>1, <2>2
<1> QED BY <1>1, QueryInvHolds, PTL

(* SIRIPARSER_MASTER_CHECK_ACCESS is only made by the master, and that is  *)
(* enough: the statement of a user without the right to it changes nothing *)
(* on the master and is never seen by another server, be it through        *)
(* siridb_query_forward or through the queue for a replica.                *)
THEOREM DeniedIsHarmlessHolds == Spec => []DeniedIsHarmless
<1>1. QueryInv => DeniedIsHarmless
  <2> SUFFICES ASSUME QueryInv, NEW q \in Queries, qry[q].denied, NEW s \in Servers
               PROVE  ~task[q][s].did /\ (s # Masters[q] => task[q][s].st = "none")
    BY DEF DeniedIsHarmless
  <2> QED BY DEF QueryInv, DeniedInv, DeniedTask
<1> QED BY <1>1, QueryInvHolds, PTL

-----------------------------------------------------------------------------
(* The statements that are changes.                                        *)

ChangeCallBacks == {"on_update_xxx_response", "on_drop_series_response",
                    "on_drop_shards_response"}

(* A handler of a change goes on on this server; the last one saves the    *)
(* change and is the only one that gives it to the other servers.          *)
Early(node) == node.go \in {"next", "async"} /\ node.cb = "none"
Final(node) ==
    /\ node.go = "forward" /\ node.fwd \in {"update", "update_online"}
    /\ node.cb \in ChangeCallBacks /\ node.count \in {"none", "self"}
    /\ node.save # "none"

ChangeStmt(S) ==
    /\ \A k \in 1..(Len(S) - 1) : Early(S[k])
    /\ Final(S[Len(S)])
    /\ \E k \in 1..Len(S) : S[k].eff # "none"

(* The other handlers and statements.                                      *)
NotUpdate(node) == node.cb # "on_update_xxx_response"
Quiet(node) == node.eff = "none" /\ NotUpdate(node)
NoUpdate(S) == \A k \in 1..Len(S) : S[k].cb # "on_update_xxx_response"
NoEffect(S) == \A k \in 1..Len(S) : S[k].eff = "none"
QuietStmt(S) == NoUpdate(S) /\ NoEffect(S)

(* The handlers of a change before the last one ask nobody.                *)
LEMMA EarlyHandlers ==
    /\ Early(enter_alter_stmt) /\ Early(enter_alter_group)
    /\ Early(enter_set_expression) /\ Early(enter_set_name)
    /\ Early(enter_alter_tag) /\ Early(enter_alter_user)
    /\ Early(enter_set_password) /\ Early(enter_set_ignore_threshold)
    /\ Early(enter_create_stmt) /\ Early(enter_create_user)
    /\ Early(NewPassword) /\ Early(enter_drop_stmt)
    /\ Early(enter_series_match) /\ Early(exit_drop_series)
    /\ Early(enter_where_xxx) /\ Early(exit_drop_shards)
    /\ Early(enter_access_expr) /\ Early(enter_grant_user)
    /\ Early(enter_revoke_user)
  BY DEF Early, Async, NewPassword, Node, enter_access_expr, enter_alter_group,
     enter_alter_stmt, enter_alter_tag, enter_alter_user, enter_create_stmt,
     enter_create_user, enter_drop_stmt, enter_grant_user, enter_revoke_user,
     enter_series_match, enter_set_expression, enter_set_ignore_threshold,
     enter_set_name, enter_set_password, enter_where_xxx, exit_drop_series,
     exit_drop_shards

(* The last handler of a change saves it, or has it saved, and gives it to *)
(* all pools.                                                              *)
LEMMA FinalHandlers ==
    /\ Final(exit_alter_group) /\ Final(exit_alter_tag)
    /\ Final(exit_alter_user) /\ Final(exit_set_drop_threshold)
    /\ Final(exit_set_tee) /\ Final(exit_set_timezone)
    /\ Final(exit_set_expiration_xxx) /\ Final(exit_set_list_limit)
    /\ Final(exit_set_select_points_limit) /\ Final(exit_create_group)
    /\ Final(exit_create_user) /\ Final(exit_drop_group)
    /\ Final(exit_drop_tag) /\ Final(exit_drop_user)
    /\ Final(exit_drop_server) /\ Final(async_drop_series)
    /\ Final(async_drop_shards) /\ Final(exit_grant_user)
    /\ Final(exit_revoke_user)
  BY DEF Final, ChangeCallBacks, Forward, Node, Setting, Update, Versioned,
     async_drop_series, async_drop_shards, exit_alter_group, exit_alter_tag,
     exit_alter_user, exit_create_group, exit_create_user, exit_drop_group,
     exit_drop_server, exit_drop_tag, exit_drop_user, exit_grant_user,
     exit_revoke_user, exit_set_drop_threshold, exit_set_expiration_xxx,
     exit_set_list_limit, exit_set_select_points_limit, exit_set_tee,
     exit_set_timezone

(* The handlers that make the changes.                                     *)
LEMMA ChangingHandlers ==
    /\ enter_set_name.eff # "none" /\ enter_set_password.eff # "none"
    /\ exit_set_drop_threshold.eff # "none" /\ exit_set_tee.eff # "none"
    /\ exit_set_timezone.eff # "none" /\ exit_set_expiration_xxx.eff # "none"
    /\ exit_set_list_limit.eff # "none"
    /\ exit_set_select_points_limit.eff # "none"
    /\ exit_create_group.eff # "none" /\ exit_create_user.eff # "none"
    /\ exit_drop_group.eff # "none" /\ exit_drop_tag.eff # "none"
    /\ exit_drop_user.eff # "none" /\ exit_drop_server.eff # "none"
    /\ async_drop_series.eff # "none" /\ async_drop_shards.eff # "none"
    /\ enter_grant_user.eff # "none" /\ enter_revoke_user.eff # "none"
  BY DEF Forward, Node, Setting, Update, Versioned, async_drop_series,
     async_drop_shards, enter_grant_user, enter_revoke_user, enter_set_name,
     enter_set_password, exit_create_group, exit_create_user,
     exit_drop_group, exit_drop_server, exit_drop_tag, exit_drop_user,
     exit_set_drop_threshold, exit_set_expiration_xxx, exit_set_list_limit,
     exit_set_select_points_limit, exit_set_tee, exit_set_timezone

(* The handlers of statements that are no changes and not about tags.      *)
LEMMA QuietHandlers ==
    /\ Quiet(enter_alter_stmt) /\ Quiet(enter_alter_server)
    /\ Quiet(exit_set_address) /\ Quiet(exit_set_port)
    /\ Quiet(exit_set_backup_mode) /\ Quiet(SetLogLevelServer)
    /\ Quiet(enter_alter_servers) /\ Quiet(enter_where_xxx)
    /\ Quiet(exit_set_log_level) /\ Quiet(enter_count_stmt)
    /\ Quiet(exit_count_pools(FALSE)) /\ Quiet(exit_count_pools(TRUE))
    /\ Quiet(enter_series_match) /\ Quiet(exit_count_series)
    /\ Quiet(exit_count_series_length) /\ Quiet(exit_count_servers(FALSE))
    /\ Quiet(enter_timeit_stmt) /\ Quiet(exit_count_servers(TRUE))
    /\ Quiet(exit_timeit_stmt) /\ Quiet(exit_count_servers_received)
    /\ Quiet(exit_count_servers_selected) /\ Quiet(exit_count_shards)
    /\ Quiet(exit_count_shards_size) /\ Quiet(exit_count_users)
    /\ Quiet(exit_count_groups(FALSE)) /\ Quiet(finish_count_groups)
    /\ Quiet(exit_count_groups(TRUE)) /\ Quiet(exit_count_tags(TRUE))
    /\ Quiet(finish_count_tags) /\ Quiet(enter_list_stmt)
    /\ Quiet(enter_limit_expr) /\ Quiet(exit_list_groups(FALSE))
    /\ Quiet(finish_list_groups) /\ Quiet(enter_xxx_columns)
    /\ Quiet(exit_list_tags(TRUE)) /\ Quiet(finish_list_tags)
    /\ Quiet(exit_list_pools) /\ Quiet(exit_list_series)
    /\ Quiet(async_list_series) /\ Quiet(exit_list_servers(FALSE))
    /\ Quiet(exit_list_servers(TRUE)) /\ Quiet(exit_list_shards)
    /\ Quiet(exit_list_users) /\ Quiet(enter_select_stmt)
    /\ Quiet(enter_merge_as) /\ Quiet(exit_between_expr)
    /\ Quiet(async_select_aggregate) /\ Quiet(exit_select_stmt(FALSE))
    /\ Quiet(exit_after_expr) /\ Quiet(exit_before_expr)
    /\ Quiet(exit_select_stmt(TRUE)) /\ Quiet(exit_head_expr)
    /\ Quiet(exit_tail_expr) /\ Quiet(exit_show_stmt) /\ Quiet(enter_help)
    /\ Quiet(exit_help_xxx) /\ Quiet(exit_calc_stmt)
  BY DEF Quiet, NotUpdate, Async, Counted, Forward, Listed, Node,
     SetLogLevelServer, async_list_series, async_select_aggregate,
     enter_alter_server, enter_alter_servers, enter_alter_stmt,
     enter_count_stmt, enter_help, enter_limit_expr, enter_list_stmt,
     enter_merge_as, enter_select_stmt, enter_series_match,
     enter_timeit_stmt, enter_where_xxx, enter_xxx_columns, exit_after_expr,
     exit_before_expr, exit_between_expr, exit_calc_stmt, exit_count_groups,
     exit_count_pools, exit_count_series, exit_count_series_length,
     exit_count_servers, exit_count_servers_received,
     exit_count_servers_selected, exit_count_shards, exit_count_shards_size,
     exit_count_tags, exit_count_users, exit_head_expr, exit_help_xxx,
     exit_list_groups, exit_list_pools, exit_list_series, exit_list_servers,
     exit_list_shards, exit_list_tags, exit_list_users, exit_select_stmt,
     exit_set_address, exit_set_backup_mode, exit_set_log_level,
     exit_set_port, exit_show_stmt, exit_tail_expr, exit_timeit_stmt,
     finish_count_groups, finish_count_tags, finish_list_groups,
     finish_list_tags

(* The answers about tags are never errors.                                *)
LEMMA TagHandlers ==
    /\ NotUpdate(enter_alter_stmt) /\ NotUpdate(enter_alter_series)
    /\ NotUpdate(enter_series_match) /\ NotUpdate(enter_tag_series)
    /\ NotUpdate(exit_tag_series) /\ NotUpdate(enter_untag_series)
    /\ NotUpdate(exit_untag_series)
  BY DEF NotUpdate, Async, Forward, Node, enter_alter_series, enter_alter_stmt,
     enter_series_match, enter_tag_series, enter_untag_series,
     exit_tag_series, exit_untag_series

(* Early handlers and a final one, of which one has an effect, are a       *)
(* change: two handlers.                                                   *)
LEMMA ChangeTwo ==
    \A a, b :
        /\ Early(a)
        /\ Final(b)
        /\ a.eff # "none" \/ b.eff # "none"
        => ChangeStmt(<<a, b>>)
<1> TAKE a, b
<1> DEFINE S == <<a, b>>
<1> HAVE /\ Early(a)
         /\ Final(b)
         /\ a.eff # "none" \/ b.eff # "none"
<1>1. Len(S) = 2 /\ Final(S[2]) /\ \A k \in 1..1 : Early(S[k])
  OBVIOUS
<1>2. \E k \in 1..2 : S[k].eff # "none"
  OBVIOUS
<1> HIDE DEF S
<1> QED BY <1>1, <1>2 DEF ChangeStmt

(* The same for three handlers.                                            *)
LEMMA ChangeThree ==
    \A a, b, c :
        /\ Early(a) /\ Early(b)
        /\ Final(c)
        /\ a.eff # "none" \/ b.eff # "none" \/ c.eff # "none"
        => ChangeStmt(<<a, b, c>>)
<1> TAKE a, b, c
<1> DEFINE S == <<a, b, c>>
<1> HAVE /\ Early(a) /\ Early(b)
         /\ Final(c)
         /\ a.eff # "none" \/ b.eff # "none" \/ c.eff # "none"
<1>1. Len(S) = 3 /\ Final(S[3]) /\ \A k \in 1..2 : Early(S[k])
  OBVIOUS
<1>2. \E k \in 1..3 : S[k].eff # "none"
  OBVIOUS
<1> HIDE DEF S
<1> QED BY <1>1, <1>2 DEF ChangeStmt

(* The same for four handlers.                                             *)
LEMMA ChangeFour ==
    \A a, b, c, d :
        /\ Early(a) /\ Early(b) /\ Early(c)
        /\ Final(d)
        /\ a.eff # "none" \/ b.eff # "none" \/ c.eff # "none" \/ d.eff # "none"
        => ChangeStmt(<<a, b, c, d>>)
<1> TAKE a, b, c, d
<1> DEFINE S == <<a, b, c, d>>
<1> HAVE /\ Early(a) /\ Early(b) /\ Early(c)
         /\ Final(d)
         /\ a.eff # "none" \/ b.eff # "none" \/ c.eff # "none" \/ d.eff # "none"
<1>1. Len(S) = 4 /\ Final(S[4]) /\ \A k \in 1..3 : Early(S[k])
  OBVIOUS
<1>2. \E k \in 1..4 : S[k].eff # "none"
  OBVIOUS
<1> HIDE DEF S
<1> QED BY <1>1, <1>2 DEF ChangeStmt

(* The same for five handlers.                                             *)
LEMMA ChangeFive ==
    \A a, b, c, d, e :
        /\ Early(a) /\ Early(b) /\ Early(c) /\ Early(d)
        /\ Final(e)
        /\ a.eff # "none" \/ b.eff # "none" \/ c.eff # "none" \/ d.eff # "none" \/ e.eff # "none"
        => ChangeStmt(<<a, b, c, d, e>>)
<1> TAKE a, b, c, d, e
<1> DEFINE S == <<a, b, c, d, e>>
<1> HAVE /\ Early(a) /\ Early(b) /\ Early(c) /\ Early(d)
         /\ Final(e)
         /\ a.eff # "none" \/ b.eff # "none" \/ c.eff # "none" \/ d.eff # "none" \/ e.eff # "none"
<1>1. Len(S) = 5 /\ Final(S[5]) /\ \A k \in 1..4 : Early(S[k])
  OBVIOUS
<1>2. \E k \in 1..5 : S[k].eff # "none"
  OBVIOUS
<1> HIDE DEF S
<1> QED BY <1>1, <1>2 DEF ChangeStmt

(* Quiet handlers are a quiet statement: one handler.                      *)
LEMMA QuietOne ==
    \A a :
        Quiet(a)
        => QuietStmt(<<a>>)
<1> TAKE a
<1> DEFINE S == <<a>>
<1> HAVE Quiet(a)
<1>1. Len(S) = 1 /\ \A k \in 1..1 : Quiet(S[k])
  OBVIOUS
<1> HIDE DEF S
<1> QED BY <1>1 DEF QuietStmt, Quiet, NotUpdate, NoUpdate, NoEffect

(* The same for two handlers.                                              *)
LEMMA QuietTwo ==
    \A a, b :
        Quiet(a) /\ Quiet(b)
        => QuietStmt(<<a, b>>)
<1> TAKE a, b
<1> DEFINE S == <<a, b>>
<1> HAVE Quiet(a) /\ Quiet(b)
<1>1. Len(S) = 2 /\ \A k \in 1..2 : Quiet(S[k])
  OBVIOUS
<1> HIDE DEF S
<1> QED BY <1>1 DEF QuietStmt, Quiet, NotUpdate, NoUpdate, NoEffect

(* The same for three handlers.                                            *)
LEMMA QuietThree ==
    \A a, b, c :
        Quiet(a) /\ Quiet(b) /\ Quiet(c)
        => QuietStmt(<<a, b, c>>)
<1> TAKE a, b, c
<1> DEFINE S == <<a, b, c>>
<1> HAVE Quiet(a) /\ Quiet(b) /\ Quiet(c)
<1>1. Len(S) = 3 /\ \A k \in 1..3 : Quiet(S[k])
  OBVIOUS
<1> HIDE DEF S
<1> QED BY <1>1 DEF QuietStmt, Quiet, NotUpdate, NoUpdate, NoEffect

(* The same for four handlers.                                             *)
LEMMA QuietFour ==
    \A a, b, c, d :
        Quiet(a) /\ Quiet(b) /\ Quiet(c) /\ Quiet(d)
        => QuietStmt(<<a, b, c, d>>)
<1> TAKE a, b, c, d
<1> DEFINE S == <<a, b, c, d>>
<1> HAVE Quiet(a) /\ Quiet(b) /\ Quiet(c) /\ Quiet(d)
<1>1. Len(S) = 4 /\ \A k \in 1..4 : Quiet(S[k])
  OBVIOUS
<1> HIDE DEF S
<1> QED BY <1>1 DEF QuietStmt, Quiet, NotUpdate, NoUpdate, NoEffect

(* The same for five handlers.                                             *)
LEMMA QuietFive ==
    \A a, b, c, d, e :
        Quiet(a) /\ Quiet(b) /\ Quiet(c) /\ Quiet(d) /\ Quiet(e)
        => QuietStmt(<<a, b, c, d, e>>)
<1> TAKE a, b, c, d, e
<1> DEFINE S == <<a, b, c, d, e>>
<1> HAVE Quiet(a) /\ Quiet(b) /\ Quiet(c) /\ Quiet(d) /\ Quiet(e)
<1>1. Len(S) = 5 /\ \A k \in 1..5 : Quiet(S[k])
  OBVIOUS
<1> HIDE DEF S
<1> QED BY <1>1 DEF QuietStmt, Quiet, NotUpdate, NoUpdate, NoEffect

(* The same for six handlers.                                              *)
LEMMA QuietSix ==
    \A a, b, c, d, e, f :
        Quiet(a) /\ Quiet(b) /\ Quiet(c) /\ Quiet(d) /\ Quiet(e) /\ Quiet(f)
        => QuietStmt(<<a, b, c, d, e, f>>)
<1> TAKE a, b, c, d, e, f
<1> DEFINE S == <<a, b, c, d, e, f>>
<1> HAVE Quiet(a) /\ Quiet(b) /\ Quiet(c) /\ Quiet(d) /\ Quiet(e) /\ Quiet(f)
<1>1. Len(S) = 6 /\ \A k \in 1..6 : Quiet(S[k])
  OBVIOUS
<1> HIDE DEF S
<1> QED BY <1>1 DEF QuietStmt, Quiet, NotUpdate, NoUpdate, NoEffect

(* Five handlers of which none waits for an update: the statements that    *)
(* tag series.                                                             *)
LEMMA TagFive ==
    \A a, b, c, d, e :
        /\ NotUpdate(a) /\ NotUpdate(b) /\ NotUpdate(c) /\ NotUpdate(d) /\ NotUpdate(e)
        => NoUpdate(<<a, b, c, d, e>>)
<1> TAKE a, b, c, d, e
<1> DEFINE S == <<a, b, c, d, e>>
<1> HAVE /\ NotUpdate(a) /\ NotUpdate(b) /\ NotUpdate(c) /\ NotUpdate(d) /\ NotUpdate(e)
<1>1. Len(S) = 5 /\ \A k \in 1..5 : NotUpdate(S[k])
  OBVIOUS
<1> HIDE DEF S
<1> QED BY <1>1 DEF NoUpdate, NotUpdate

(* Each statement of the language is a change, tags series or is quiet.    *)
LEMMA StatementKinds ==
    \A name \in DOMAIN Statement :
        \/ ChangeStmt(Statement[name])
        \/ name \in {"tag_series", "untag_series"} /\ NoUpdate(Statement[name])
        \/ QuietStmt(Statement[name])
<1>1. ChangeStmt(Statement["alter_group"])
  BY EarlyHandlers, FinalHandlers, ChangingHandlers, ChangeFive DEF Statement
<1>2. ChangeStmt(Statement["alter_tag"])
  BY EarlyHandlers, FinalHandlers, ChangingHandlers, ChangeFour DEF Statement
<1>3. ChangeStmt(Statement["alter_user"])
  BY EarlyHandlers, FinalHandlers, ChangingHandlers, ChangeFour DEF Statement
<1>4. QuietStmt(Statement["set_address"])
  BY QuietHandlers, QuietThree DEF Statement
<1>5. QuietStmt(Statement["set_port"])
  BY QuietHandlers, QuietThree DEF Statement
<1>6. QuietStmt(Statement["backup_mode"])
  BY QuietHandlers, QuietThree DEF Statement
<1>7. QuietStmt(Statement["log_level"])
  BY QuietHandlers, QuietThree DEF Statement
<1>8. QuietStmt(Statement["log_levels"])
  BY QuietHandlers, QuietFour DEF Statement
<1>9. ChangeStmt(Statement["drop_threshold"])
  BY EarlyHandlers, FinalHandlers, ChangingHandlers, ChangeTwo DEF Statement
<1>10. ChangeStmt(Statement["tee"])
  BY EarlyHandlers, FinalHandlers, ChangingHandlers, ChangeTwo DEF Statement
<1>11. ChangeStmt(Statement["timezone"])
  BY EarlyHandlers, FinalHandlers, ChangingHandlers, ChangeTwo DEF Statement
<1>12. ChangeStmt(Statement["expiration"])
  BY EarlyHandlers, FinalHandlers, ChangingHandlers, ChangeThree DEF Statement
<1>13. ChangeStmt(Statement["list_limit"])
  BY EarlyHandlers, FinalHandlers, ChangingHandlers, ChangeTwo DEF Statement
<1>14. ChangeStmt(Statement["points_limit"])
  BY EarlyHandlers, FinalHandlers, ChangingHandlers, ChangeTwo DEF Statement
<1>15. NoUpdate(Statement["tag_series"])
  BY TagHandlers, TagFive DEF Statement
<1>16. NoUpdate(Statement["untag_series"])
  BY TagHandlers, TagFive DEF Statement
<1>17. QuietStmt(Statement["count_pools"])
  BY QuietHandlers, QuietTwo DEF Statement
<1>18. QuietStmt(Statement["count_pools_where"])
  BY QuietHandlers, QuietThree DEF Statement
<1>19. QuietStmt(Statement["count_series"])
  BY QuietHandlers, QuietThree DEF Statement
<1>20. QuietStmt(Statement["count_length"])
  BY QuietHandlers, QuietTwo DEF Statement
<1>21. QuietStmt(Statement["count_servers"])
  BY QuietHandlers, QuietTwo DEF Statement
<1>22. QuietStmt(Statement["count_servers_remote"])
  BY QuietHandlers, QuietFive DEF Statement
<1>23. QuietStmt(Statement["count_received"])
  BY QuietHandlers, QuietTwo DEF Statement
<1>24. QuietStmt(Statement["count_selected"])
  BY QuietHandlers, QuietTwo DEF Statement
<1>25. QuietStmt(Statement["count_shards"])
  BY QuietHandlers, QuietTwo DEF Statement
<1>26. QuietStmt(Statement["count_size"])
  BY QuietHandlers, QuietTwo DEF Statement
<1>27. QuietStmt(Statement["count_users"])
  BY QuietHandlers, QuietTwo DEF Statement
<1>28. QuietStmt(Statement["count_groups"])
  BY QuietHandlers, QuietThree DEF Statement
<1>29. QuietStmt(Statement["count_groups_remote"])
  BY QuietHandlers, QuietFour DEF Statement
<1>30. QuietStmt(Statement["count_tags_remote"])
  BY QuietHandlers, QuietFour DEF Statement
<1>31. QuietStmt(Statement["list_groups"])
  BY QuietHandlers, QuietFour DEF Statement
<1>32. QuietStmt(Statement["list_tags_remote"])
  BY QuietHandlers, QuietFour DEF Statement
<1>33. QuietStmt(Statement["list_pools"])
  BY QuietHandlers, QuietTwo DEF Statement
<1>34. QuietStmt(Statement["list_series"])
  BY QuietHandlers, QuietFour DEF Statement
<1>35. QuietStmt(Statement["list_servers"])
  BY QuietHandlers, QuietTwo DEF Statement
<1>36. QuietStmt(Statement["list_servers_remote"])
  BY QuietHandlers, QuietThree DEF Statement
<1>37. QuietStmt(Statement["list_shards"])
  BY QuietHandlers, QuietTwo DEF Statement
<1>38. QuietStmt(Statement["list_users"])
  BY QuietHandlers, QuietTwo DEF Statement
<1>39. ChangeStmt(Statement["create_group"])
  BY EarlyHandlers, FinalHandlers, ChangingHandlers, ChangeTwo DEF Statement
<1>40. ChangeStmt(Statement["create_user"])
  BY EarlyHandlers, FinalHandlers, ChangingHandlers, ChangeFour DEF Statement
<1>41. ChangeStmt(Statement["drop_group"])
  BY EarlyHandlers, FinalHandlers, ChangingHandlers, ChangeTwo DEF Statement
<1>42. ChangeStmt(Statement["drop_tag"])
  BY EarlyHandlers, FinalHandlers, ChangingHandlers, ChangeTwo DEF Statement
<1>43. ChangeStmt(Statement["drop_user"])
  BY EarlyHandlers, FinalHandlers, ChangingHandlers, ChangeTwo DEF Statement
<1>44. ChangeStmt(Statement["drop_server"])
  BY EarlyHandlers, FinalHandlers, ChangingHandlers, ChangeTwo DEF Statement
<1>45. ChangeStmt(Statement["drop_series"])
  BY EarlyHandlers, FinalHandlers, ChangingHandlers, ChangeFour DEF Statement
<1>46. ChangeStmt(Statement["drop_shards"])
  BY EarlyHandlers, FinalHandlers, ChangingHandlers, ChangeFour DEF Statement
<1>47. ChangeStmt(Statement["grant"])
  BY EarlyHandlers, FinalHandlers, ChangingHandlers, ChangeFour DEF Statement
<1>48. ChangeStmt(Statement["revoke"])
  BY EarlyHandlers, FinalHandlers, ChangingHandlers, ChangeThree DEF Statement
<1>49. QuietStmt(Statement["select"])
  BY QuietHandlers, QuietSix DEF Statement
<1>50. QuietStmt(Statement["select_some"])
  BY QuietHandlers, QuietSix DEF Statement
<1>51. QuietStmt(Statement["select_head"])
  BY QuietHandlers, QuietSix DEF Statement
<1>52. QuietStmt(Statement["show"])
  BY QuietHandlers, QuietOne DEF Statement
<1>53. QuietStmt(Statement["help"])
  BY QuietHandlers, QuietTwo DEF Statement
<1>54. QuietStmt(Statement["calc"])
  BY QuietHandlers, QuietOne DEF Statement
<1> QED
  BY StatementNames, <1>1, <1>2, <1>3, <1>4, <1>5, <1>6, <1>7, <1>8, <1>9,
     <1>10, <1>11, <1>12, <1>13, <1>14, <1>15, <1>16, <1>17, <1>18, <1>19,
     <1>20, <1>21, <1>22, <1>23, <1>24, <1>25, <1>26, <1>27, <1>28, <1>29,
     <1>30, <1>31, <1>32, <1>33, <1>34, <1>35, <1>36, <1>37, <1>38, <1>39,
     <1>40, <1>41, <1>42, <1>43, <1>44, <1>45, <1>46, <1>47, <1>48, <1>49,
     <1>50, <1>51, <1>52, <1>53, <1>54

-----------------------------------------------------------------------------
(* A change on its way.                                                    *)

(* One server: when the handlers are through, the change is made, and only *)
(* the master waits, after its last handler.                               *)
Passed(S, m, s, t) ==
    /\ t.st = "node" => \A k \in 1..(t.pc - 1) : S[k].eff # "none" => t.did
    /\ t.st = "wait" => s = m /\ t.pc = Len(S) /\ t.did
    /\ t.st # "work"
    /\ t.ans = <<"ok">> => t.did

(* The master has asked a server of every other pool or knows that it has  *)
(* not; a server that answered with success did so, and an update that is  *)
(* answered with success is so by all.  tk is the query on all servers.    *)
Asked(t) == t.st = "wait" \/ t.ans = <<"ok">>
Promised(S, m, t, tk) ==
    Asked(t) =>
        /\ t.nulls \in Nat
        /\ \A p \in PoolSet : m \in p \/ t.nulls # 0 \/ \E x \in p : x \in DOMAIN t.prom
        /\ \A x \in DOMAIN t.prom : x \in Servers
        /\ \A x \in DOMAIN t.prom : t.prom[x] = "ok" => tk[x].ans = <<"ok">>
        /\ t.ans = <<"ok">> /\ S[Len(S)].cb = "on_update_xxx_response"
             => t.nulls = 0 /\ Oks(t) = DOMAIN t.prom

(* The replica of a server that has the change has it too, or the change   *)
(* is in the queue.  The master gives it away with the last handler.       *)
Given(m, s, t) == IF s = m THEN Asked(t) ELSE t.st # "none"
QueuedAt(q) == {s \in Servers : \E i \in 1..Len(fifo[s]) : fifo[s][i] = q}

ChangeOK(S, m, tk, Q) ==
    /\ \A s \in Servers : Passed(S, m, s, tk[s])
    /\ Promised(S, m, tk[m], tk)
    /\ \A s \in Servers : Given(m, s, tk[s]) =>
          \A y \in Others(s) : tk[y].st # "none" \/ s \in Q

IsChange(q) == qry[q].name # "none" /\ ChangeStmt(Nodes(q))

ChangesInv ==
    \A q \in Queries : IsChange(q) =>
        ChangeOK(Nodes(q), Masters[q], task[q], QueuedAt(q))

(* Whoever has a query in its queue has the query, and so has the master.  *)
KnownInv ==
    \A q \in Queries :
        /\ qry[q].name # "none" => task[q][Masters[q]].st # "none"
        /\ \A s \in QueuedAt(q) : task[q][s].st # "none"

EverywhereInv == QueryInv /\ ChangesInv /\ KnownInv

-----------------------------------------------------------------------------
(* Pools.                                                                  *)

(* A server is in one pool, with one other server at most.                 *)
LEMMA PoolOf ==
    ASSUME NEW p \in PoolSet, NEW s \in p
    PROVE  Pool(s) = p /\ s \in Servers
<1>1. Pool(s) \in PoolSet /\ s \in Pool(s)
  BY DEF Pool
<1>2. Pool(s) = p
  BY <1>1, QueryAssumption
<1> QED BY <1>2 DEF Servers

(* Every server is in its pool.                                            *)
LEMMA ServerHasPool ==
    ASSUME NEW s \in Servers
    PROVE  Pool(s) \in PoolSet /\ s \in Pool(s)
  BY DEF Servers, Pool

(* An element that is not in a set makes it larger by one.                 *)
LEMMA OneMore ==
    ASSUME NEW S, NEW x, IsFiniteSet(S), x \notin S
    PROVE  IsFiniteSet(S \cup {x}) /\ Cardinality(S \cup {x}) = Cardinality(S) + 1
  BY FS_AddElement

(* Three different elements are three.                                     *)
LEMMA ThreeElements ==
    ASSUME NEW x, NEW y, NEW z, x # y, x # z, y # z
    PROVE  Cardinality({x, y, z}) = 3
<1> DEFINE A == {x}
           B == A \cup {y}
           C == B \cup {z}
<1>1. IsFiniteSet(A) /\ Cardinality(A) = 1 /\ y \notin A
  BY FS_Singleton
<1>2. z \notin B /\ C = {x, y, z}
  OBVIOUS
<1> HIDE DEF A
<1>3. IsFiniteSet(B) /\ Cardinality(B) = Cardinality(A) + 1
  BY <1>1, OneMore
<1> HIDE DEF B
<1>4. Cardinality(C) = Cardinality(B) + 1
  BY <1>2, <1>3, OneMore
<1> HIDE DEF C
<1> QED BY <1>1, <1>2, <1>3, <1>4

(* A pool is a server and its replica.                                     *)
LEMMA TwoAtMost ==
    ASSUME NEW s \in Servers, NEW y \in Others(s)
    PROVE  y \in Servers /\ s \in Others(y) /\ Others(s) = {y} /\ Others(y) = {s}
<1> DEFINE p == Pool(s)
<1>1. p \in PoolSet /\ s \in p /\ y \in p /\ y # s
  BY ServerHasPool DEF Others
<1>2. Pool(y) = p /\ y \in Servers
  BY <1>1, PoolOf
<1>3. IsFiniteSet(p) /\ Cardinality(p) <= 2
  BY <1>1, QueryAssumption
<1>4. p = {s, y}
  <2> SUFFICES ASSUME NEW z \in p, z # s, z # y PROVE FALSE
    BY <1>1
  <2>1. {s, y, z} \subseteq p
    BY <1>1
  <2>2. Cardinality({s, y, z}) <= Cardinality(p)
    BY <1>3, <2>1, FS_Subset
  <2>3. Cardinality({s, y, z}) = 3
    BY <1>1, ThreeElements
  <2>4. Cardinality(p) \in Nat
    BY <1>3, FS_CardinalityType
  <2> QED BY <1>3, <2>2, <2>3, <2>4
<1> QED BY <1>1, <1>2, <1>4 DEF Others

-----------------------------------------------------------------------------
(* What the operators on a query do to a change.                           *)

(* An error, or no answer, is not a success.                               *)
LEMMA NotOk == <<"error">> # <<"ok">> /\ <<>> # <<"ok">>
  OBVIOUS

(* u is as t, but for the counts.                                          *)
SameAsk(t, u) == u.prom = t.prom /\ u.nulls = t.nulls

(* An answer ends the query and leaves what the server has asked and done. *)
LEMMA AnswerSame ==
    ASSUME NEW t, NEW a \in {"ok", "error"}, DOMAIN t = TaskFields, t.ans = <<>>
    PROVE  LET u == Answer(t, a)
           IN  SameAsk(t, u) /\ u.st = "done" /\ u.ans = <<a>> /\ u.did = t.did
  BY OneAnswer DEF Answer, SameAsk, TaskFields

(* The call-back of the promises begins with the same query.               *)
LEMMA OnPromisesSame ==
    ASSUME NEW t, DOMAIN t = TaskFields
    PROVE  LET u == OnPromises(t)
           IN  /\ SameAsk(t, u) /\ DOMAIN u = TaskFields
               /\ u.pc = t.pc /\ u.ans = t.ans /\ u.did = t.did
  BY DEF OnPromises, SameAsk, TaskFields

(* The counts of other servers are added; what was asked stays.            *)
LEMMA PlusSame ==
    ASSUME NEW q, NEW t, NEW X, DOMAIN t = TaskFields
    PROVE  SameAsk(t, Plus(q, t, X))
  BY DEF Plus, SameAsk, TaskFields

(* The last handler of a change is followed by the answer.                 *)
LEMMA LastNodeSame ==
    ASSUME NEW q, NEW t, DOMAIN t = TaskFields, t.ans = <<>>, t.pc = Len(Nodes(q))
    PROVE  LET u == NextNode(q, t)
           IN  SameAsk(t, u) /\ u.st = "done" /\ u.ans = <<"ok">> /\ u.did = t.did
<1>1. NextNode(q, t) = Answer(t, "ok")
  BY DEF NextNode, siridb_send_query_result
<1> QED BY <1>1, AnswerSame

(* A promise that is there for all: the change is answered, and with       *)
(* success for an update only if all servers did so.                       *)
Ended(q, t, u) ==
    /\ SameAsk(t, u) /\ u.did = t.did /\ u.st = "done"
    /\ u.ans \in {<<"ok">>, <<"error">>}
    /\ u.ans = <<"ok">> /\ Nodes(q)[t.pc].cb = "on_update_xxx_response"
         => ~(t.nulls > 0) /\ Oks(t) = DOMAIN t.prom

(* Every call-back of a change ends it as Ended says.                      *)
LEMMA ChangeCallback ==
    ASSUME NEW q, NEW t, DOMAIN t = TaskFields, t.ans = <<>>, t.pc = Len(Nodes(q)),
           Nodes(q)[t.pc].cb \in ChangeCallBacks, NEW u \in Callback(q, t)
    PROVE  Ended(q, t, u)
<1> DEFINE v == OnPromises(t)
           w == Plus(q, v, Oks(t))
<1>1. /\ SameAsk(t, v) /\ DOMAIN v = TaskFields
      /\ v.pc = t.pc /\ v.ans = <<>> /\ v.did = t.did
  BY OnPromisesSame
<1> HIDE DEF v
<1>2. SameAsk(v, w) /\ Like(v, w)
  BY <1>1, PlusSame, PlusLike
<1> HIDE DEF w
<1>3. /\ SameAsk(t, w) /\ DOMAIN w = TaskFields
      /\ w.pc = Len(Nodes(q)) /\ w.ans = <<>> /\ w.did = t.did
  BY <1>1, <1>2 DEF SameAsk, Like
<1>4. LET n == NextNode(q, w)
      IN  SameAsk(t, n) /\ n.st = "done" /\ n.ans = <<"ok">> /\ n.did = t.did
  BY <1>3, LastNodeSame DEF SameAsk
<1>5. LET n == NextNode(q, v)
      IN  SameAsk(t, n) /\ n.st = "done" /\ n.ans = <<"ok">> /\ n.did = t.did
  BY <1>1, LastNodeSame DEF SameAsk
<1>6. LET n == siridb_query_send_error(v)
      IN  SameAsk(t, n) /\ n.st = "done" /\ n.ans = <<"error">> /\ n.did = t.did
  BY <1>1, AnswerSame DEF SameAsk, siridb_query_send_error
<1>7. CASE Nodes(q)[t.pc].cb = "on_update_xxx_response"
  <2>1. u = on_update_xxx_response(q, t)
    BY <1>7 DEF Callback
  <2>2. CASE t.nulls > 0 \/ Oks(t) # DOMAIN t.prom
    <3>1. u = siridb_query_send_error(v)
      BY <2>1, <2>2 DEF on_update_xxx_response, v
    <3> QED BY <1>6, <3>1, NotOk DEF Ended
  <2>3. CASE ~(t.nulls > 0 \/ Oks(t) # DOMAIN t.prom)
    <3>1. u = NextNode(q, v)
      BY <2>1, <2>3 DEF on_update_xxx_response, v
    <3> QED BY <1>5, <2>3, <3>1 DEF Ended
  <2> QED BY <2>2, <2>3
<1>8. CASE Nodes(q)[t.pc].cb \in {"on_drop_series_response", "on_drop_shards_response"}
  <2>1. u = NextNode(q, w)
    BY <1>8 DEF Callback, on_drop_series_response, on_drop_shards_response, v, w
  <2> QED BY <1>4, <1>8, <2>1 DEF Ended
<1> QED BY <1>7, <1>8 DEF ChangeCallBacks

(* SIRINET_PROMISES_CHECK: the master waits or answers.                    *)
LEMMA ChangeCheck ==
    ASSUME NEW q, NEW t, DOMAIN t = TaskFields, t.ans = <<>>, t.pc = Len(Nodes(q)),
           Nodes(q)[t.pc].cb \in ChangeCallBacks,
           NEW u \in SIRINET_PROMISES_CHECK(q, t)
    PROVE  \/ Ended(q, t, u)
           \/ /\ SameAsk(t, u) /\ u.did = t.did /\ u.pc = t.pc
              /\ u.st = "wait" /\ u.ans = <<>>
<1>1. CASE Open(t) = {}
  BY <1>1, ChangeCallback DEF SIRINET_PROMISES_CHECK
<1>2. CASE Open(t) # {}
  <2>1. u = [t EXCEPT !.st = "wait"]
    BY <1>2 DEF SIRINET_PROMISES_CHECK
  <2> QED BY <2>1 DEF SameAsk, TaskFields
<1> QED BY <1>1, <1>2

(* What the master knows of the others after it asked, or heard, them is   *)
(* still so when it waits or answers.                                      *)
AskedAll(m, t, tk) ==
    /\ t.nulls \in Nat
    /\ \A p \in PoolSet : m \in p \/ t.nulls # 0 \/ \E x \in p : x \in DOMAIN t.prom
    /\ \A x \in DOMAIN t.prom : x \in Servers
    /\ \A x \in DOMAIN t.prom : t.prom[x] = "ok" => tk[x].ans = <<"ok">>

(* The last answer to a change: when the client hears success, all were    *)
(* asked and said so.                                                      *)
LEMMA CheckPromised ==
    ASSUME NEW q, NEW t, DOMAIN t = TaskFields, t.ans = <<>>, t.pc = Len(Nodes(q)), t.did,
           Nodes(q)[t.pc].cb \in ChangeCallBacks, NEW m, NEW tk, AskedAll(m, t, tk),
           NEW u \in SIRINET_PROMISES_CHECK(q, t)
    PROVE  Passed(Nodes(q), m, m, u) /\ Promised(Nodes(q), m, u, tk) /\ u.st # "none"
<1>1. CASE Ended(q, t, u)
  <2>1. /\ u.prom = t.prom /\ u.nulls = t.nulls /\ u.did = t.did /\ u.st = "done"
        /\ u.ans = <<"ok">> /\ Nodes(q)[t.pc].cb = "on_update_xxx_response"
           => ~(t.nulls > 0) /\ Oks(t) = DOMAIN t.prom
    BY <1>1 DEF Ended, SameAsk
  <2>2. Oks(u) = Oks(t)
    BY <2>1 DEF Oks
  <2>3. AskedAll(m, u, tk)
    BY <2>1 DEF AskedAll
  <2>4. t.nulls \in Nat
    BY DEF AskedAll
  <2>5. /\ u.ans = <<"ok">> /\ Nodes(q)[Len(Nodes(q))].cb = "on_update_xxx_response"
           => u.nulls = 0 /\ Oks(u) = DOMAIN u.prom
    BY <2>1, <2>2, <2>4
  <2>6. Promised(Nodes(q), m, u, tk)
    BY <2>3, <2>5 DEF Promised, AskedAll
  <2> QED BY <2>1, <2>6 DEF Passed
<1>2. CASE /\ SameAsk(t, u) /\ u.did = t.did /\ u.pc = t.pc
           /\ u.st = "wait" /\ u.ans = <<>>
  <2>1. AskedAll(m, u, tk)
    BY <1>2 DEF AskedAll, SameAsk
  <2> QED BY <1>2, <2>1, NotOk DEF Promised, AskedAll, Passed
<1> QED BY <1>1, <1>2, ChangeCheck

(* siridb_query_forward of a change asks one server of each other pool,    *)
(* or counts the pool as one that has none.                                *)
LEMMA ChangeForward ==
    ASSUME NEW q, NEW s \in Servers, NEW t, DOMAIN t = TaskFields, NEW tk,
           Nodes(q)[t.pc].fwd \in {"update", "update_online"},
           NEW u \in siridb_query_forward(q, s, t)
    PROVE  AskedAll(s, u, tk)
<1> DEFINE others == {p \in PoolSet : s \notin p}
           only == Nodes(q)[t.pc].fwd = "update_online"
<1>1. u \in siridb_pools_send_pkg(s, t, others, only)
  BY DEF siridb_query_forward
<1>2. PICK f \in [others -> Servers \cup {NoServer}] :
        /\ \A p \in others : f[p] \in Candidates(p, only)
        /\ u = Sent(t, {f[p] : p \in others} \ {NoServer},
                    Cardinality({p \in others : f[p] = NoServer}))
  BY <1>1, Zenon DEF siridb_pools_send_pkg
<1> DEFINE X == {f[p] : p \in others} \ {NoServer}
           N == {p \in others : f[p] = NoServer}
<1>3. u.prom = [x \in X |-> "open"] /\ u.nulls = Cardinality(N)
  BY <1>2 DEF Sent, TaskFields
<1>4. IsFiniteSet(N)
  <2>1. N \subseteq PoolSet
    OBVIOUS
  <2> QED BY <2>1, QueryAssumption, FS_Subset
<1>5. u.nulls \in Nat /\ (u.nulls = 0 => N = {})
  BY <1>3, <1>4, FS_CardinalityType, FS_EmptySet
<1>6. ASSUME NEW p \in PoolSet, s \notin p, u.nulls = 0 PROVE \E x \in p : x \in DOMAIN u.prom
  <2>1. p \in others /\ f[p] # NoServer
    BY <1>5, <1>6
  <2>2. f[p] \in p
    BY <1>2, <2>1 DEF Candidates
  <2> QED BY <1>3, <2>1, <2>2
<1>7. \A x \in DOMAIN u.prom : x \in Servers /\ u.prom[x] # "ok"
  BY <1>2, <1>3
<1> QED BY <1>5, <1>6, <1>7 DEF AskedAll

(* A query never becomes unknown again, and what is done is done.          *)
Keeps(t, u) == u.st # "none" /\ u.did = t.did

(* The next handler keeps it.                                              *)
LEMMA NextKeeps ==
    ASSUME NEW q, NEW t, DOMAIN t = TaskFields
    PROVE  Keeps(t, NextNode(q, t))
  BY DEF Keeps, NextNode, siridb_send_query_result, Answer, TaskFields

(* An error keeps it.                                                      *)
LEMMA ErrorKeeps ==
    ASSUME NEW t, DOMAIN t = TaskFields
    PROVE  Keeps(t, siridb_query_send_error(t))
  BY DEF Keeps, siridb_query_send_error, Answer, TaskFields

(* The check of the promises keeps it.                                     *)
LEMMA CheckKeeps ==
    ASSUME NEW q, NEW t, Bound(q, t), NEW u \in SIRINET_PROMISES_CHECK(q, t)
    PROVE  Keeps(t, u)
<1> DEFINE v == OnPromises(t)
<1>1. DOMAIN v = TaskFields /\ v.did = t.did
  BY OnPromisesSame DEF Bound
<1>2. Keeps(v, siridb_query_send_error(v))
  BY <1>1, ErrorKeeps
<1> HIDE DEF v
<1>3. \A w : Like(v, w) => Keeps(v, NextNode(q, w)) /\ Keeps(v, Work(w))
  BY NextKeeps DEF Like, Keeps, Work, TaskFields
<1>4. Like(v, Plus(q, v, Oks(t))) /\ \A w \in PlusRows(q, v, Oks(t)) : Like(v, w)
  BY <1>1, PlusLike, PlusRowsLike
<1>5. /\ Keeps(v, NextNode(q, v)) /\ Keeps(v, NextNode(q, Plus(q, v, Oks(t))))
      /\ Keeps(v, Work(Plus(q, v, Oks(t))))
      /\ \A w \in PlusRows(q, v, Oks(t)) : Keeps(v, NextNode(q, w))
  BY <1>1, <1>3, <1>4, NextKeeps
<1>6. CASE Open(t) # {}
  <2>1. u = [t EXCEPT !.st = "wait"]
    BY <1>6 DEF SIRINET_PROMISES_CHECK
  <2> QED BY <2>1 DEF Bound, TaskFields, Keeps
<1>7. CASE Open(t) = {}
  <2>1. u \in Callback(q, t) /\ Nodes(q)[t.pc].cb \in CallBacks
    BY <1>7 DEF SIRINET_PROMISES_CHECK, Bound
  <2>2. CASE Nodes(q)[t.pc].cb = "on_list_xxx_response"
    <3>1. u \in on_list_xxx_response(q, t)
      BY <2>1, <2>2 DEF Callback
    <3>2. Keeps(v, u)
      BY <1>2, <1>5, <3>1 DEF on_list_xxx_response, v
    <3> QED BY <1>1, <3>2 DEF Keeps
  <2>3. CASE Nodes(q)[t.pc].cb # "on_list_xxx_response"
    <3>1. \/ u = siridb_query_send_error(v) \/ u = NextNode(q, v)
          \/ u = NextNode(q, Plus(q, v, Oks(t))) \/ u = Work(Plus(q, v, Oks(t)))
      BY <2>1, <2>3 DEF Callback, CallBacks, on_update_xxx_response,
         on_count_xxx_response, on_select_response, on_drop_series_response,
         on_drop_shards_response, on_tag_response, on_alter_xxx_response,
         on_groups_response, on_tags_response, on_ack_response, v
    <3>2. Keeps(v, u)
      BY <1>2, <1>5, <3>1
    <3> QED BY <1>1, <3>2 DEF Keeps
  <2> QED BY <2>2, <2>3
<1> QED BY <1>6, <1>7

-----------------------------------------------------------------------------
(* The steps of a change.                                                  *)

(* A step of one server: what the others know stays true, because a server *)
(* that answered with success takes no step any more.                      *)
LEMMA ChangeStep ==
    ASSUME NEW S, NEW m \in Servers, NEW tk, NEW tk2, NEW Q, NEW Q2,
           NEW s \in Servers, NEW u, ChangeOK(S, m, tk, Q),
           tk2[s] = u, \A x \in Servers : x # s => tk2[x] = tk[x],
           tk[s].ans # <<"ok">>, u.st # "none", Passed(S, m, s, u),
           s = m => Promised(S, m, u, tk),
           \A x \in Servers : x \in Q => x \in Q2,
           Given(m, s, u) =>
              Given(m, s, tk[s]) \/ \A y \in Others(s) : tk[y].st # "none" \/ s \in Q2
    PROVE  ChangeOK(S, m, tk2, Q2)
<1>1. \A x \in Servers : Passed(S, m, x, tk2[x])
  BY DEF ChangeOK
<1>2. Promised(S, m, tk2[m], tk)
  BY DEF ChangeOK
<1>3. \A x \in Servers : tk[x].ans = <<"ok">> => tk2[x].ans = <<"ok">>
  OBVIOUS
<1>4. Promised(S, m, tk2[m], tk2)
  BY <1>2, <1>3 DEF Promised
<1>5. \A y \in Servers : tk[y].st # "none" => tk2[y].st # "none"
  OBVIOUS
<1>6. ASSUME NEW x \in Servers, Given(m, x, tk2[x]), NEW y \in Others(x)
      PROVE  tk2[y].st # "none" \/ x \in Q2
  <2>1. y \in Servers
    BY TwoAtMost
  <2>2. CASE x # s \/ Given(m, s, tk[s])
    <3>1. Given(m, x, tk[x])
      BY <1>6, <2>2
    <3>2. tk[y].st # "none" \/ x \in Q
      BY <3>1 DEF ChangeOK
    <3> QED BY <1>5, <2>1, <3>2
  <2>3. CASE x = s /\ ~Given(m, s, tk[s])
    BY <1>5, <1>6, <2>1, <2>3
  <2> QED BY <2>2, <2>3
<1> QED BY <1>1, <1>4, <1>6 DEF ChangeOK

(* The same for all queries: the step is of query q on server s.           *)
LEMMA EverywhereStep ==
    ASSUME EverywhereInv, NEW q \in Queries, NEW s \in Servers, NEW u, NEW stays,
           Become(q, s, u, stays), UNCHANGED qry, task[q][s].st # "done", u.st # "none",
           \A r \in Queries : r # q => QueuedAt(r)' = QueuedAt(r),
           \A x \in Servers : x \in QueuedAt(q) => x \in QueuedAt(q)',
           \A x \in Servers : x \in QueuedAt(q)' => x \in QueuedAt(q) \/ x = s,
           IsChange(q) =>
              /\ Passed(Nodes(q), Masters[q], s, u)
              /\ s = Masters[q] => Promised(Nodes(q), Masters[q], u, task[q])
              /\ Given(Masters[q], s, u) =>
                   \/ Given(Masters[q], s, task[q][s])
                   \/ \A y \in Others(s) : task[q][y].st # "none" \/ s \in QueuedAt(q)'
    PROVE  ChangesInv' /\ KnownInv'
<1>1. /\ task'[q][s] = u
      /\ \A x \in Servers : x # s => task'[q][x] = task[q][x]
      /\ \A r \in Queries : r # q => task'[r] = task[r]
  BY DEF Become, EverywhereInv, QueryInv, ShapeInv
<1>2. \A r \in Queries : Nodes(r)' = Nodes(r) /\ (IsChange(r)' <=> IsChange(r))
  BY DEF Nodes, IsChange
<1>3. task[q][s].ans # <<"ok">>
  BY NotOk DEF EverywhereInv, QueryInv, TasksInv, TaskInv
<1>4. Masters[q] \in Servers
  BY MasterType
<1>5. ChangesInv'
  <2> SUFFICES ASSUME NEW r \in Queries, IsChange(r)
               PROVE  ChangeOK(Nodes(r), Masters[r], task'[r], QueuedAt(r)')
    BY <1>2 DEF ChangesInv
  <2>1. ChangeOK(Nodes(r), Masters[r], task[r], QueuedAt(r))
    BY DEF EverywhereInv, ChangesInv
  <2>2. CASE r # q
    BY <1>1, <2>1, <2>2
  <2>3. CASE r = q
    <3> DEFINE S == Nodes(q)
               m == Masters[q]
               Q1 == QueuedAt(q)
               Q2 == QueuedAt(q)'
               tk == task[q]
               tk2 == task'[q]
    <3>1. /\ ChangeOK(S, m, tk, Q1) /\ m \in Servers
          /\ tk2[s] = u /\ \A x \in Servers : x # s => tk2[x] = tk[x]
          /\ tk[s].ans # <<"ok">> /\ Passed(S, m, s, u)
          /\ s = m => Promised(S, m, u, tk)
          /\ \A x \in Servers : x \in Q1 => x \in Q2
          /\ Given(m, s, u) =>
               Given(m, s, tk[s]) \/ \A y \in Others(s) : tk[y].st # "none" \/ s \in Q2
      BY <1>1, <1>3, <1>4, <2>1, <2>3
    <3> HIDE DEF S, m, Q1, Q2, tk, tk2
    <3>2. ChangeOK(S, m, tk2, Q2)
      BY <3>1, ChangeStep
    <3> QED BY <2>3, <3>2 DEF S, m, Q2, tk2
  <2> QED BY <2>2, <2>3
<1>6. KnownInv'
  <2> SUFFICES ASSUME NEW r \in Queries
               PROVE  /\ qry[r].name # "none" => task'[r][Masters[r]].st # "none"
                      /\ \A x \in QueuedAt(r)' : task'[r][x].st # "none"
    BY DEF KnownInv
  <2>1. /\ qry[r].name # "none" => task[r][Masters[r]].st # "none"
        /\ \A x \in QueuedAt(r) : task[r][x].st # "none"
    BY DEF EverywhereInv, KnownInv
  <2>2. CASE r # q
    BY <1>1, <2>1, <2>2
  <2>3. CASE r = q
    <3>1. \A x \in QueuedAt(r)' : x \in Servers
      BY DEF QueuedAt
    <3> QED BY <1>1, <1>4, <2>1, <2>3, <3>1
  <2> QED BY <2>2, <2>3
<1> QED BY <1>5, <1>6

(* A step that leaves the queues alone and gives the change to nobody.     *)
LEMMA EverywhereSame ==
    ASSUME EverywhereInv, NEW q \in Queries, NEW s \in Servers, NEW u, NEW stays,
           Become(q, s, u, stays), UNCHANGED <<qry, fifo>>,
           task[q][s].st \notin {"none", "done"}, u.st # "none",
           IsChange(q) =>
              /\ Passed(Nodes(q), Masters[q], s, u)
              /\ s = Masters[q] /\ Asked(u) =>
                    /\ Promised(Nodes(q), Masters[q], u, task[q])
                    /\ Asked(task[q][s])
    PROVE  ChangesInv' /\ KnownInv'
<1>1. \A r \in Queries : QueuedAt(r)' = QueuedAt(r)
  BY DEF QueuedAt
<1>2. IsChange(q) =>
         /\ s = Masters[q] => Promised(Nodes(q), Masters[q], u, task[q])
         /\ Given(Masters[q], s, u) => Given(Masters[q], s, task[q][s])
  BY DEF Promised, Given
<1> QED BY <1>1, <1>2, EverywhereStep

(* An error is neither a change that is made nor one that waits.           *)
LEMMA ErrorPassed ==
    ASSUME NEW S, NEW m, NEW s, NEW t, DOMAIN t = TaskFields, t.ans = <<>>
    PROVE  LET u == siridb_query_send_error(t)
           IN  Passed(S, m, s, u) /\ ~Asked(u) /\ u.st # "none"
<1> DEFINE u == siridb_query_send_error(t)
<1>1. u.st = "done" /\ u.ans = <<"error">>
  BY AnswerSame DEF siridb_query_send_error
<1> HIDE DEF u
<1>2. Passed(S, m, s, u) /\ ~Asked(u) /\ u.st # "none"
  BY <1>1, NotOk DEF Passed, Asked
<1> QED BY <1>2 DEF u

(* A query that runs is sent, and has no answer.                           *)
LEMMA RunningTask ==
    ASSUME EverywhereInv, NEW q \in Queries, NEW s \in Servers,
           task[q][s].st \in {"parse", "node", "wait", "work"}
    PROVE  /\ DOMAIN task[q][s] = TaskFields /\ task[q][s].ans = <<>>
           /\ qry[q].name # "none" /\ TaskInv(q, task[q][s])
           /\ StatementOK(Nodes(q))
  BY Running DEF EverywhereInv, TaskInv

(* QUERY_parse: no handler has run yet, or the query ends with an error.   *)
LEMMA QueryParseEverywhere ==
    ASSUME EverywhereInv, NEW q \in Queries, NEW s \in Servers, QUERY_parse(q, s)
    PROVE  ChangesInv' /\ KnownInv'
<1> DEFINE t == task[q][s]
           first == [t EXCEPT !.st = "node", !.pc = 1]
<1>1. t.st = "parse" /\ UNCHANGED <<qry, fifo>>
  BY DEF QUERY_parse
<1>2. DOMAIN t = TaskFields /\ t.ans = <<>>
  BY <1>1, RunningTask
<1>3. first.st = "node" /\ first.pc = 1 /\ first.ans = <<>>
  BY <1>2 DEF TaskFields
<1>4. \/ Become(q, s, first, FALSE)
      \/ Become(q, s, siridb_query_send_error(t), FALSE)
  BY DEF QUERY_parse
<1> HIDE DEF first
<1>5. Passed(Nodes(q), Masters[q], s, first) /\ ~Asked(first) /\ first.st # "none"
  BY <1>3, NotOk DEF Passed, Asked
<1>6. CASE Become(q, s, first, FALSE)
  BY <1>1, <1>5, <1>6, EverywhereSame
<1>7. CASE Become(q, s, siridb_query_send_error(t), FALSE)
  BY <1>1, <1>2, <1>7, ErrorPassed, EverywhereSame
<1> QED BY <1>4, <1>6, <1>7

(* A handler that fails: the query ends with an error.                     *)
LEMMA NodeFailsEverywhere ==
    ASSUME EverywhereInv, NEW q \in Queries, NEW s \in Servers, NodeFails(q, s)
    PROVE  ChangesInv' /\ KnownInv'
<1>1. /\ task[q][s].st = "node" /\ UNCHANGED <<qry, fifo>>
      /\ Become(q, s, siridb_query_send_error(task[q][s]), FALSE)
  BY DEF NodeFails
<1>2. DOMAIN task[q][s] = TaskFields /\ task[q][s].ans = <<>>
  BY <1>1, RunningTask
<1> QED BY <1>1, <1>2, ErrorPassed, EverywhereSame

(* A change that cannot be written ends the query with an error too.       *)
LEMMA SaveFailsEverywhere ==
    ASSUME EverywhereInv, NEW q \in Queries, NEW s \in Servers, SaveFails(q, s)
    PROVE  ChangesInv' /\ KnownInv'
<1> DEFINE t == task[q][s]
           d == Doing(t, Nodes(q)[t.pc])
<1>1. /\ t.st = "node" /\ UNCHANGED <<qry, fifo>>
      /\ Become(q, s, siridb_query_send_error(d), FALSE)
  BY DEF SaveFails
<1>2. DOMAIN t = TaskFields /\ t.ans = <<>>
  BY <1>1, RunningTask
<1>3. DOMAIN d = TaskFields /\ d.ans = <<>>
  BY <1>2, DoingOK
<1> HIDE DEF d
<1> QED BY <1>1, <1>3, ErrorPassed, EverywhereSame

(* The queue of a server gets the query, and no other queue does.          *)
LEMMA ReplicatedQueued ==
    ASSUME QueueInv, NEW q \in Queries, NEW s \in Servers, NEW node,
           fifo' = Replicated(q, s, node)
    PROVE  /\ \A r \in Queries : r # q => QueuedAt(r)' = QueuedAt(r)
           /\ \A x \in Servers : x \in QueuedAt(q) => x \in QueuedAt(q)'
           /\ \A x \in Servers : x \in QueuedAt(q)' => x \in QueuedAt(q) \/ x = s
           /\ node.fwd \in {"update", "update_online"} /\ Others(s) # {}
                => s \in QueuedAt(q)'
<1>1. CASE fifo' = fifo /\ ~(node.fwd \in {"update", "update_online"} /\ Others(s) # {})
  BY <1>1 DEF QueuedAt
<1>2. CASE fifo' = [fifo EXCEPT ![s] = Append(fifo[s], q)]
  <2>1. /\ \A x \in Servers : x # s => fifo'[x] = fifo[x]
        /\ fifo[s] \in Seq(Queries) /\ fifo'[s] = Append(fifo[s], q)
    BY <1>2 DEF QueueInv
  <2> DEFINE In(c, f) == \E i \in 1..Len(f) : f[i] = c
             g == Append(fifo[s], q)
             n == Len(fifo[s])
  <2>2. /\ n \in Nat /\ Len(g) = n + 1 /\ g[n + 1] = q
        /\ \A i \in 1..n : g[i] = fifo[s][i]
    BY <2>1
  <2>3. fifo'[s] = g
    BY <2>1
  <2>4. \A c : In(c, g) <=> In(c, fifo[s]) \/ c = q
    <3> HIDE DEF g
    <3>1. \A i \in 1..(n + 1) : i \in 1..n \/ i = n + 1
      BY <2>2
    <3>2. 1..n \subseteq 1..(n + 1) /\ n + 1 \in 1..(n + 1)
      BY <2>2
    <3> QED BY <2>2, <3>1, <3>2
  <2> HIDE DEF g, n
  <2>5. \A c : QueuedAt(c) = {x \in Servers : In(c, fifo[x])}
    BY DEF QueuedAt
  <2>6. \A c : QueuedAt(c)' = {x \in Servers : In(c, fifo'[x])}
    BY DEF QueuedAt
  <2> HIDE DEF In
  <2> QED BY <2>1, <2>3, <2>4, <2>5, <2>6
<1> QED BY <1>1, <1>2 DEF Replicated

(* A handler of a change runs.  The last one on the master asks the other  *)
(* pools and, before that, puts the change into the queue for its replica. *)
LEMMA RunNodeEverywhere ==
    ASSUME EverywhereInv, NEW q \in Queries, NEW s \in Servers, RunNode(q, s)
    PROVE  ChangesInv' /\ KnownInv'
<1> DEFINE t1 == task[q][s]
           node == Nodes(q)[t1.pc]
           t0 == [t1 EXCEPT !.did = t1.did \/ node.eff # "none"]
           Counts == IF node.count = "rows" THEN CountRows(q, t0, node)
                     ELSE {Count(q, s, t0, node)}
           S == Nodes(q)
           m == Masters[q]
<1>1. t1.st = "node" /\ UNCHANGED qry
  BY DEF RunNode
<1>2. /\ DOMAIN t1 = TaskFields /\ t1.ans = <<>> /\ qry[q].name # "none"
      /\ StatementOK(S) /\ TaskInv(q, t1)
  BY <1>1, RunningTask
<1>3. t1.pc \in 1..Len(S) /\ Len(S) \in Nat /\ t1.ref = 1
  BY <1>1, <1>2 DEF TaskInv, StatementOK
<1>4. WellFormed(node)
  BY <1>2, <1>3 DEF StatementOK
<1>5. /\ DOMAIN t0 = TaskFields /\ t0.ans = <<>> /\ t0.pc = t1.pc /\ t0.ref = 1
      /\ t0.did <=> t1.did \/ node.eff # "none"
  BY <1>2, <1>3 DEF TaskFields
<1>6. PICK t \in Counts :
       IF IsMaster(q, s) /\ node.go = "forward" /\ (node.count = "row" => t.limit > 0)
       THEN \E sent \in siridb_query_forward(q, s, t) :
            \E u \in SIRINET_PROMISES_CHECK(q, sent) :
                /\ Become(q, s, u, StaysAfter(q, t))
                /\ fifo' = Replicated(q, s, node)
       ELSE IF node.go = "ack" /\ qry[q].target # s
       THEN /\ Become(q, s, [Sent(t, {qry[q].target}, 0) EXCEPT !.st = "wait"], FALSE)
            /\ UNCHANGED fifo
       ELSE /\ Become(q, s, NextNode(q, t), node.go = "next")
            /\ UNCHANGED fifo
  BY Zenon DEF RunNode, Doing
<1> HIDE DEF t0
<1>7. Like(t0, t)
  BY <1>4, <1>5, CountLike
<1> HIDE DEF Counts
<1>8. /\ DOMAIN t = TaskFields /\ t.ans = <<>> /\ t.pc = t1.pc /\ t.ref = 1
      /\ t.did <=> t1.did \/ node.eff # "none"
  BY <1>5, <1>7 DEF Like
<1> HIDE DEF node
<1>9. ASSUME IsChange(q), NEW k \in 1..t1.pc, S[k].eff # "none" PROVE t.did
  <2>1. Passed(S, m, s, t1)
    BY <1>9 DEF EverywhereInv, ChangesInv, ChangeOK
  <2>2. CASE k = t1.pc
    BY <1>8, <1>9, <2>2 DEF node
  <2>3. CASE k # t1.pc
    <3>1. k \in 1..(t1.pc - 1)
      BY <1>3, <2>3
    <3>2. t1.did
      BY <1>1, <1>9, <2>1, <3>1 DEF Passed
    <3> QED BY <1>8, <3>2
  <2> QED BY <2>2, <2>3
<1>10. ASSUME IsChange(q), t1.pc = Len(S) PROVE t.did /\ Final(node)
  BY <1>9, <1>10 DEF IsChange, ChangeStmt, node
<1>11. ASSUME IsChange(q), t1.pc # Len(S) PROVE Early(node)
  <2>1. t1.pc \in 1..(Len(S) - 1)
    BY <1>3, <1>11
  <2> QED BY <1>11, <2>1 DEF IsChange, ChangeStmt, node
<1> DEFINE fwds == IsMaster(q, s) /\ node.go = "forward" /\ (node.count = "row" => t.limit > 0)
<1>12. CASE fwds
  <2>1. PICK sent \in siridb_query_forward(q, s, t) :
            \E u \in SIRINET_PROMISES_CHECK(q, sent) :
                /\ Become(q, s, u, StaysAfter(q, t))
                /\ fifo' = Replicated(q, s, node)
    BY <1>6, <1>12
  <2>2. PICK u \in SIRINET_PROMISES_CHECK(q, sent) :
                /\ Become(q, s, u, StaysAfter(q, t))
                /\ fifo' = Replicated(q, s, node)
    BY <2>1
  <2>3. s = m
    BY <1>12 DEF IsMaster
  <2>4. PICK X, k : sent = Sent(t, X, k)
    BY ForwardSends
  <2>5. /\ DOMAIN sent = TaskFields /\ sent.pc = t1.pc /\ sent.ref = 2
        /\ sent.ans = <<>> /\ sent.did = t.did
    BY <1>8, <2>4, SentOK
  <2>6. Bound(q, sent)
    BY <1>3, <1>4, <1>12, <2>5 DEF Bound, WellFormed, node
  <2>7. TaskInv(q, u) /\ u.st # "none"
    <3>1. TaskInv(q, u)
      BY <1>2, <2>2, <2>6, PromisesCheckOK DEF EverywhereInv, QueryInv
    <3>2. u.st # "none"
      BY <1>2, <2>2, <2>6, CheckKeeps DEF EverywhereInv, QueryInv, Keeps
    <3> QED BY <3>1, <3>2
  <2>8. /\ \A r \in Queries : r # q => QueuedAt(r)' = QueuedAt(r)
        /\ \A x \in Servers : x \in QueuedAt(q) => x \in QueuedAt(q)'
        /\ \A x \in Servers : x \in QueuedAt(q)' => x \in QueuedAt(q) \/ x = s
        /\ node.fwd \in {"update", "update_online"} /\ Others(s) # {}
                => s \in QueuedAt(q)'
    BY <2>2, ReplicatedQueued DEF EverywhereInv, QueryInv
  <2>9. ASSUME IsChange(q)
        PROVE  /\ Passed(S, m, s, u) /\ Promised(S, m, u, task[q])
               /\ \A y \in Others(s) : s \in QueuedAt(q)'
    <3>1. t1.pc = Len(S) /\ t.did /\ Final(node)
      BY <1>10, <1>11, <1>12, <2>9 DEF Early
    <3>2. node.fwd \in {"update", "update_online"} /\ node.cb \in ChangeCallBacks
      BY <3>1 DEF Final
    <3>3. AskedAll(m, sent, task[q])
      BY <1>8, <2>1, <2>3, <3>2, ChangeForward DEF node
    <3>4. Passed(S, m, m, u) /\ Promised(S, m, u, task[q])
      BY <2>2, <2>5, <3>1, <3>2, <3>3, CheckPromised DEF node
    <3> QED BY <2>3, <2>8, <3>2, <3>4
  <2> QED BY <1>1, <2>2, <2>7, <2>8, <2>9, EverywhereStep
<1>13. CASE ~fwds /\ node.go = "ack" /\ qry[q].target # s
  <2> DEFINE sent == Sent(t, {qry[q].target}, 0)
             u == [sent EXCEPT !.st = "wait"]
  <2>1. Become(q, s, u, FALSE) /\ UNCHANGED fifo
    BY <1>6, <1>13
  <2>2. ~IsChange(q)
    BY <1>10, <1>11, <1>13 DEF Early, Final
  <2>3. u.st = "wait"
    BY <1>8, SentOK DEF TaskFields
  <2> HIDE DEF u
  <2> QED BY <1>1, <2>1, <2>2, <2>3, EverywhereSame
<1>14. CASE ~fwds /\ ~(node.go = "ack" /\ qry[q].target # s)
  <2> DEFINE u == NextNode(q, t)
  <2>1. Become(q, s, u, node.go = "next") /\ UNCHANGED fifo
    BY <1>6, <1>14
  <2>2. /\ TaskInv(q, u) /\ u.did = t.did
        /\ u.st = "done" \/ (u.st = "node" /\ u.pc = t.pc + 1)
    BY <1>2, <1>3, <1>8, NextNodeOK DEF EverywhereInv, QueryInv
  <2>3. ASSUME IsChange(q) PROVE Passed(S, m, s, u) /\ ~(s = m /\ Asked(u))
    <3>1. CASE t1.pc = Len(S)
      <4>1. Final(node) /\ t.did
        BY <1>10, <2>3, <3>1
      <4>2. s # m
        BY <1>14, <4>1 DEF Final, IsMaster
      <4>3. u.st = "done" /\ u.did
        BY <1>8, <2>2, <3>1, <4>1, LastNodeSame
      <4> HIDE DEF u
      <4> QED BY <4>2, <4>3 DEF Passed
    <3>2. CASE t1.pc # Len(S)
      <4>1. u = [t EXCEPT !.st = "node", !.pc = t.pc + 1]
        BY <1>8, <3>2 DEF NextNode
      <4>2. u.st = "node" /\ u.pc = t1.pc + 1 /\ u.ans = <<>> /\ u.did = t.did
        BY <1>8, <4>1 DEF TaskFields
      <4> HIDE DEF u
      <4>3. \A k \in 1..(u.pc - 1) : S[k].eff # "none" => u.did
        BY <1>3, <1>9, <2>3, <4>2
      <4> QED BY <4>2, <4>3, NotOk DEF Passed, Asked
    <3> QED BY <3>1, <3>2
  <2> HIDE DEF u
  <2>4. u.st # "none"
    BY <2>2
  <2> QED BY <1>1, <2>1, <2>3, <2>4, EverywhereSame
<1> QED BY <1>12, <1>13, <1>14

(* The change arrives at another pool: it is put into the queue for the    *)
(* replica there before it runs.                                           *)
LEMMA ReceiveEverywhere ==
    ASSUME EverywhereInv, NEW q \in Queries, NEW x \in Servers, Receive(q, x)
    PROVE  ChangesInv' /\ KnownInv'
<1> DEFINE m == Masters[q]
           S == Nodes(q)
           node == Nodes(q)[task[q][m].pc]
           run == siridb_query_run(NoTask)
<1>1. /\ qry[q].name # "none" /\ task[q][m].st = "wait" /\ task[q][x].st = "none"
      /\ UNCHANGED qry /\ fifo' = Replicated(q, x, node) /\ m \in Servers
  BY MasterType DEF Receive, Waiting
<1>2. /\ \A r \in Queries : r # q => QueuedAt(r)' = QueuedAt(r)
      /\ \A y \in Servers : y \in QueuedAt(q) => y \in QueuedAt(q)'
      /\ \A y \in Servers : y \in QueuedAt(q)' => y \in QueuedAt(q) \/ y = x
      /\ node.fwd \in {"update", "update_online"} /\ Others(x) # {} => x \in QueuedAt(q)'
  BY <1>1, ReplicatedQueued DEF EverywhereInv, QueryInv
<1>3. run.st = "parse" /\ run.ans = <<>>
  BY NoTaskOK DEF siridb_query_run, TaskFields
<1>4. IsChange(q) => Final(node)
  <2>1. IsChange(q) => Passed(S, m, m, task[q][m])
    BY <1>1 DEF EverywhereInv, ChangesInv, ChangeOK
  <2> QED BY <1>1, <2>1 DEF IsChange, ChangeStmt, Passed
<1> HIDE DEF node
<1>5. CASE node.fwd = "groups" \/ node.go = "ack"
  <2>1. PICK a \in {"ok", "error"} :
            Become(q, x, [NoTask EXCEPT !.st = "done", !.ans = <<a>>,
                          !.n[x] = IF node.fwd = "groups" THEN 1 ELSE 0], FALSE)
    BY <1>5 DEF Receive, node
  <2> DEFINE u == [NoTask EXCEPT !.st = "done", !.ans = <<a>>,
                          !.n[x] = IF node.fwd = "groups" THEN 1 ELSE 0]
  <2>2. u.st = "done"
    BY NoTaskOK DEF TaskFields
  <2>3. ~IsChange(q)
    BY <1>4, <1>5 DEF Final
  <2> HIDE DEF u
  <2>4. Become(q, x, u, FALSE)
    BY <2>1 DEF u
  <2> QED BY <1>1, <1>2, <2>2, <2>3, <2>4, EverywhereStep
<1>6. CASE ~(node.fwd = "groups" \/ node.go = "ack")
  <2>1. Become(q, x, run, FALSE)
    BY <1>6 DEF Receive, node
  <2>2. Passed(S, m, x, run)
    BY <1>3, NotOk DEF Passed
  <2>3. x # m
    BY <1>1
  <2>4. IsChange(q) => \A y \in Others(x) : x \in QueuedAt(q)'
    BY <1>2, <1>4 DEF Final
  <2> HIDE DEF run
  <2> QED BY <1>1, <1>2, <1>3, <2>1, <2>2, <2>3, <2>4, EverywhereStep
<1> QED BY <1>5, <1>6

(* The promise of a server becomes "ok" only if that server answered so.   *)
LEMMA OnResponseEverywhere ==
    ASSUME EverywhereInv, NEW q \in Queries, NEW x \in Servers, OnResponse(q, x)
    PROVE  ChangesInv' /\ KnownInv'
<1> DEFINE m == Masters[q]
           t == task[q][m]
           S == Nodes(q)
<1>1. m \in Servers /\ t.st = "wait" /\ x \in DOMAIN t.prom /\ UNCHANGED <<qry, fifo>>
  BY MasterType DEF OnResponse, Open
<1>2. DOMAIN t = TaskFields /\ t.ans = <<>> /\ qry[q].name # "none" /\ TaskInv(q, t)
  BY <1>1, RunningTask
<1>3. PICK a \in {"fail"} \cup
               (IF task[q][x].st # "done" THEN {}
                ELSE IF task[q][x].ans[1] = "ok" THEN {"ok"} ELSE {"err"}) :
        \E u \in SIRINET_PROMISES_CHECK(q, [t EXCEPT !.prom[x] = a]) :
          Become(q, m, u, StaysAfter(q, t))
  BY Zenon DEF OnResponse
<1> DEFINE v == [t EXCEPT !.prom[x] = a]
<1>4. /\ DOMAIN v = TaskFields /\ v.ans = <<>> /\ v.pc = t.pc /\ v.did = t.did
      /\ v.nulls = t.nulls /\ v.ref = t.ref
      /\ v.prom = [t.prom EXCEPT ![x] = a]
  BY <1>2 DEF TaskFields
<1>5. PICK u \in SIRINET_PROMISES_CHECK(q, v) : Become(q, m, u, StaysAfter(q, t))
  BY <1>3
<1> HIDE DEF v
<1>6. Bound(q, v)
  BY <1>1, <1>2, <1>4 DEF Bound, TaskInv
<1>7. u.st # "none"
  BY <1>5, <1>6, CheckKeeps DEF Keeps
<1>8. a = "ok" => task[q][x].ans = <<"ok">>
  <2> SUFFICES ASSUME a = "ok" PROVE task[q][x].ans = <<"ok">>
    OBVIOUS
  <2>1. task[q][x].st = "done" /\ task[q][x].ans[1] = "ok"
    BY <1>3
  <2>2. task[q][x].ans \in {<<"ok">>, <<"error">>}
    BY <2>1 DEF EverywhereInv, QueryInv, TasksInv, TaskInv
  <2> QED BY <2>1, <2>2
<1>9. ASSUME IsChange(q) PROVE Passed(S, m, m, u) /\ Promised(S, m, u, task[q])
  <2>1. Passed(S, m, m, t) /\ Promised(S, m, t, task[q])
    BY <1>1, <1>9 DEF EverywhereInv, ChangesInv, ChangeOK
  <2>2. v.pc = Len(S) /\ v.did /\ S[v.pc].cb \in ChangeCallBacks
    BY <1>1, <1>4, <1>9, <2>1 DEF Passed, IsChange, ChangeStmt, Final
  <2>3. AskedAll(m, t, task[q])
    BY <1>1, <2>1 DEF Promised, Asked, AskedAll
  <2>4. /\ DOMAIN v.prom = DOMAIN t.prom /\ v.prom[x] = a
        /\ \A y \in DOMAIN t.prom : y # x => v.prom[y] = t.prom[y]
    BY <1>1, <1>4
  <2>5. AskedAll(m, v, task[q])
    BY <1>4, <1>8, <2>3, <2>4 DEF AskedAll
  <2> QED BY <1>4, <1>5, <2>2, <2>5, CheckPromised
<1>10. Asked(t)
  BY <1>1 DEF Asked
<1> QED BY <1>1, <1>5, <1>7, <1>9, <1>10, EverywhereSame

(* Only a select does work.                                                *)
LEMMA WorkDoneEverywhere ==
    ASSUME EverywhereInv, NEW q \in Queries, WorkDone(q)
    PROVE  ChangesInv' /\ KnownInv'
<1> DEFINE m == Masters[q]
           t == task[q][m]
           Less(u) == [u EXCEPT !.ref = u.ref - 1]
<1>1. m \in Servers /\ t.st = "work" /\ UNCHANGED <<qry, fifo>>
  BY MasterType DEF WorkDone
<1>2. DOMAIN t = TaskFields /\ t.ans = <<>>
  BY <1>1, RunningTask
<1>3. ~IsChange(q)
  BY <1>1 DEF EverywhereInv, ChangesInv, ChangeOK, Passed
<1>4. PICK u \in {NextNode(q, t), siridb_query_send_error(t)} :
        Become(q, m, Less(u), FALSE)
  BY DEF WorkDone
<1>5. DOMAIN u = TaskFields /\ u.st # "none"
  BY <1>2, <1>4 DEF NextNode, siridb_send_query_result, siridb_query_send_error,
     Answer, TaskFields
<1>6. Less(u).st # "none"
  BY <1>5 DEF TaskFields
<1> HIDE DEF Less
<1> QED BY <1>1, <1>3, <1>4, <1>6, EverywhereSame

(* The replica gets the change that leaves the queue.  Its own replica is  *)
(* the server of the queue, which has the change.                          *)
LEMMA ReplicateEverywhere ==
    ASSUME EverywhereInv, NEW s \in Servers, Replicate(s)
    PROVE  ChangesInv' /\ KnownInv'
<1> DEFINE u == siridb_query_run(NoTask)
           In(c, f) == \E i \in 1..Len(f) : f[i] = c
<1>1. /\ fifo[s] \in Seq(Queries) /\ fifo[s] # <<>> /\ UNCHANGED qry
      /\ fifo' = [fifo EXCEPT ![s] = Tail(fifo[s])]
  BY DEF Replicate, EverywhereInv, QueryInv, QueueInv
<1>first. PICK q \in Queries : q = Head(fifo[s])
  BY <1>1
<1>2. 1 \in 1..Len(fifo[s]) /\ fifo[s][1] = q
  BY <1>first, <1>1
<1>3. s \in QueuedAt(q)
  BY <1>2 DEF QueuedAt
<1>4. PICK r \in Others(s) : task[q][r].st = "none" /\ Become(q, r, u, FALSE)
  BY <1>first DEF Replicate
<1>5. r \in Servers /\ Others(s) = {r} /\ Others(r) = {s} /\ r # s
  BY <1>4, TwoAtMost DEF Others
<1>6. u.st = "parse" /\ u.ans = <<>>
  BY NoTaskOK DEF siridb_query_run, TaskFields
<1>7. ~NotQueued(q)
  BY <1>2 DEF NotQueued
<1>8. /\ qry[q].name # "none" /\ task[q][Masters[q]].st # "none"
      /\ task[q][s].st # "none" /\ r # Masters[q]
  <2>1. qry[q].name # "none"
    BY <1>2, <1>7 DEF EverywhereInv, QueryInv, FreshInv
  <2> QED BY <1>2, <1>3, <1>4, <2>1 DEF EverywhereInv, KnownInv
<1>9. /\ \A c : QueuedAt(c) = {y \in Servers : In(c, fifo[y])}
      /\ \A c : QueuedAt(c)' = {y \in Servers : In(c, fifo'[y])}
  BY DEF QueuedAt
<1>10. \A y \in Servers : y # s => fifo'[y] = fifo[y]
  BY <1>1 DEF EverywhereInv, QueryInv, QueueInv
<1>11. fifo'[s] = Tail(fifo[s])
  BY <1>1 DEF EverywhereInv, QueryInv, QueueInv
<1>12. \A c : /\ In(c, fifo'[s]) => In(c, fifo[s])
              /\ c # q /\ In(c, fifo[s]) => In(c, fifo'[s])
  <2> DEFINE f == fifo[s]
             g == Tail(f)
             n == Len(f)
  <2>1. /\ n \in Nat \ {0} /\ Len(g) = n - 1
        /\ \A i \in 1..(n - 1) : g[i] = f[i + 1]
    BY <1>1
  <2>2. f[1] = q /\ fifo'[s] = g
    BY <1>2, <1>11
  <2> HIDE DEF f, g, n
  <2>3. \A i \in 1..(n - 1) : i + 1 \in 1..n
    BY <2>1
  <2>4. \A i \in 1..n : i = 1 \/ (i - 1 \in 1..(n - 1) /\ (i - 1) + 1 = i)
    BY <2>1
  <2>5. \A c : In(c, g) => In(c, f)
    BY <2>1, <2>3 DEF n
  <2>6. \A c : c # q /\ In(c, f) => In(c, g)
    <3> SUFFICES ASSUME NEW c, c # q, NEW i \in 1..n, f[i] = c PROVE In(c, g)
      BY DEF n
    <3>1. i - 1 \in 1..(n - 1) /\ g[i - 1] = c
      BY <2>1, <2>2, <2>4
    <3> QED BY <2>1, <3>1
  <2> QED BY <2>2, <2>5, <2>6 DEF f
<1> HIDE DEF In
<1>13. /\ \A c \in Queries : c # q => QueuedAt(c)' = QueuedAt(c)
       /\ \A y \in Servers : y # s /\ y \in QueuedAt(q) => y \in QueuedAt(q)'
       /\ \A c \in Queries, y \in Servers : y \in QueuedAt(c)' => y \in QueuedAt(c)
  BY <1>9, <1>10, <1>12
<1> HIDE DEF u
<1>14. /\ task'[q][r] = u
       /\ \A x \in Servers : x # r => task'[q][x] = task[q][x]
       /\ \A c \in Queries : c # q => task'[c] = task[c]
  BY <1>2, <1>4, <1>5 DEF Become, EverywhereInv, QueryInv, ShapeInv
<1>15. \A c \in Queries : Nodes(c)' = Nodes(c) /\ (IsChange(c)' <=> IsChange(c))
  BY <1>1 DEF Nodes, IsChange
<1>16. ChangesInv'
  <2> SUFFICES ASSUME NEW c \in Queries, IsChange(c)
               PROVE  ChangeOK(Nodes(c), Masters[c], task'[c], QueuedAt(c)')
    BY <1>15 DEF ChangesInv
  <2>1. ChangeOK(Nodes(c), Masters[c], task[c], QueuedAt(c))
    BY DEF EverywhereInv, ChangesInv
  <2>2. CASE c # q
    BY <1>13, <1>14, <2>1, <2>2
  <2>3. CASE c = q
    <3> DEFINE S == Nodes(q)
               m == Masters[q]
               tk == task[q]
               tk2 == task'[q]
               Q == QueuedAt(q)
               Q2 == QueuedAt(q)'
    <3>1. /\ ChangeOK(S, m, tk, Q) /\ m \in Servers /\ tk[s].st # "none" /\ m # r
          /\ tk2[r] = u /\ \A x \in Servers : x # r => tk2[x] = tk[x]
          /\ \A x \in Servers : x # s /\ x \in Q => x \in Q2
          /\ tk[r].st = "none"
      BY <1>2, <1>4, <1>8, <1>13, <1>14, <2>1, <2>3, MasterType
    <3>2. tk[r].ans # <<"ok">>
      BY <1>2, <1>4, <1>5, NotOk DEF EverywhereInv, QueryInv, TasksInv, TaskInv
    <3> HIDE DEF S, m, tk, tk2, Q, Q2
    <3>3. \A x \in Servers : Passed(S, m, x, tk2[x])
      BY <1>6, <3>1, NotOk DEF Passed, ChangeOK
    <3>4. Promised(S, m, tk2[m], tk2)
      BY <3>1, <3>2 DEF Promised, ChangeOK
    <3>5. ASSUME NEW x \in Servers, Given(m, x, tk2[x]), NEW y \in Others(x)
          PROVE  tk2[y].st # "none" \/ x \in Q2
      <4>1. CASE x = s
        BY <1>5, <1>6, <3>1, <4>1
      <4>2. CASE x = r
        BY <1>5, <3>1, <4>2
      <4>3. CASE x # s /\ x # r
        <5>1. y \in Servers /\ (tk[y].st # "none" \/ x \in Q)
          BY <3>1, <3>5, <4>3, TwoAtMost DEF ChangeOK
        <5>2. tk[y].st # "none" => tk2[y].st # "none"
          BY <1>6, <3>1, <5>1
        <5> QED BY <3>1, <4>3, <5>1, <5>2
      <4> QED BY <4>1, <4>2, <4>3
    <3>6. ChangeOK(S, m, tk2, Q2)
      BY <3>3, <3>4, <3>5 DEF ChangeOK
    <3> QED BY <2>3, <3>6 DEF S, m, tk2, Q2
  <2> QED BY <2>2, <2>3
<1>17. KnownInv'
  <2> SUFFICES ASSUME NEW c \in Queries
               PROVE  /\ qry[c].name # "none" => task'[c][Masters[c]].st # "none"
                      /\ \A x \in QueuedAt(c)' : task'[c][x].st # "none"
    BY <1>1 DEF KnownInv
  <2>1. \A x \in QueuedAt(c)' : x \in Servers /\ x \in QueuedAt(c)
    BY <1>13 DEF QueuedAt
  <2>2. /\ qry[c].name # "none" => task[c][Masters[c]].st # "none"
        /\ \A x \in QueuedAt(c)' : task[c][x].st # "none"
    BY <2>1 DEF EverywhereInv, KnownInv
  <2>3. \A x \in Servers : task[c][x].st # "none" => task'[c][x].st # "none"
    BY <1>6, <1>14
  <2> QED BY <2>1, <2>2, <2>3, MasterType
<1> QED BY <1>16, <1>17

(* A server that stops loses what it runs, but not what it answered.       *)
LEMMA ChangeEverywhere ==
    ASSUME EverywhereInv, NEW s \in Servers, Change(s)
    PROVE  ChangesInv' /\ KnownInv'
<1>1. PICK u \in {"accessible", "online", "offline"} :
        /\ u = "offline" => \A q \in Queries : ~IsMaster(q, s)
        /\ IF u = "offline"
           THEN /\ task' = [q \in Queries |-> [task[q] EXCEPT ![s] =
                      IF task[q][s].st \in {"none", "done"} THEN task[q][s]
                      ELSE [task[q][s] EXCEPT !.st = "lost"]]]
                /\ cpu' = [cpu EXCEPT ![s] = 0]
                /\ obj' = [obj EXCEPT ![s] = saved[s]]
           ELSE UNCHANGED <<task, cpu, obj>>
  BY DEF Change
<1>2. UNCHANGED fifo /\ UNCHANGED qry
  BY DEF Change
<1>3. \A q \in Queries : /\ Nodes(q)' = Nodes(q) /\ (IsChange(q)' <=> IsChange(q))
                         /\ QueuedAt(q)' = QueuedAt(q)
  BY <1>2 DEF Nodes, IsChange, QueuedAt
<1>4. CASE u # "offline"
  <2>1. task' = task
    BY <1>1, <1>4
  <2> QED BY <1>2, <1>3, <2>1 DEF EverywhereInv, ChangesInv, KnownInv
<1>5. CASE u = "offline"
  <2>1. ASSUME NEW q \in Queries
        PROVE  /\ \A x \in Servers : x # s => task'[q][x] = task[q][x]
               /\ Masters[q] # s
               /\ task[q][s].st \in {"none", "done"} => task'[q][s] = task[q][s]
               /\ task[q][s].st \notin {"none", "done"} =>
                     /\ task'[q][s].st = "lost"
                     /\ task'[q][s].ans = <<>> /\ task[q][s].ans = <<>>
    <3> DEFINE t == task[q][s]
               lost == [t EXCEPT !.st = "lost"]
    <3>1. DOMAIN t = TaskFields /\ (t.st # "done" => t.ans = <<>>)
      BY DEF EverywhereInv, QueryInv, TasksInv, TaskInv
    <3>2. t.st # "done" => lost.st = "lost" /\ lost.ans = <<>>
      BY <3>1 DEF TaskFields
    <3>3. task'[q] = [task[q] EXCEPT ![s] =
                         IF t.st \in {"none", "done"} THEN t ELSE lost]
      BY <1>1, <1>5
    <3>4. DOMAIN task[q] = Servers
      BY DEF EverywhereInv, QueryInv, ShapeInv
    <3>5. Masters[q] # s
      BY <1>1, <1>5 DEF IsMaster
    <3> HIDE DEF t, lost
    <3>6. /\ \A x \in Servers : x # s => task'[q][x] = task[q][x]
          /\ task'[q][s] = IF t.st \in {"none", "done"} THEN t ELSE lost
      BY <3>3, <3>4
    <3>7. t = task[q][s]
      BY DEF t
    <3> QED BY <3>1, <3>2, <3>5, <3>6, <3>7
  <2>2. ChangesInv'
    <3> SUFFICES ASSUME NEW q \in Queries, IsChange(q)
                 PROVE  ChangeOK(Nodes(q), Masters[q], task'[q], QueuedAt(q))
      BY <1>3 DEF ChangesInv
    <3> DEFINE S == Nodes(q)
               m == Masters[q]
               tk == task[q]
               tk2 == task'[q]
               Q == QueuedAt(q)
    <3>1. ChangeOK(S, m, tk, Q) /\ m \in Servers
      BY MasterType DEF EverywhereInv, ChangesInv
    <3>2. /\ \A x \in Servers : x # s => tk2[x] = tk[x]
          /\ m # s
          /\ tk[s].st \in {"none", "done"} => tk2[s] = tk[s]
          /\ tk[s].st \notin {"none", "done"} =>
                tk2[s].st = "lost" /\ tk2[s].ans = <<>> /\ tk[s].ans = <<>>
      BY <2>1
    <3> HIDE DEF S, m, tk, tk2, Q
    <3>3. \A x \in Servers : /\ tk[x].ans = <<"ok">> => tk2[x].ans = <<"ok">>
                             /\ tk[x].st # "none" <=> tk2[x].st # "none"
      BY <3>2, NotOk
    <3>4. \A x \in Servers : Passed(S, m, x, tk2[x])
      BY <3>1, <3>2, NotOk DEF Passed, ChangeOK
    <3>5. Promised(S, m, tk2[m], tk2)
      BY <3>1, <3>2, <3>3 DEF Promised, ChangeOK
    <3>6. ASSUME NEW x \in Servers, Given(m, x, tk2[x]), NEW y \in Others(x)
          PROVE  tk2[y].st # "none" \/ x \in Q
      <4>1. Given(m, x, tk[x])
        BY <3>1, <3>2, <3>3, <3>6 DEF Given
      <4>2. y \in Servers /\ (tk[y].st # "none" \/ x \in Q)
        BY <3>1, <3>6, <4>1, TwoAtMost DEF ChangeOK
      <4> QED BY <3>3, <4>2
    <3>7. ChangeOK(S, m, tk2, Q)
      BY <3>4, <3>5, <3>6 DEF ChangeOK
    <3> QED BY <3>7 DEF S, m, tk2, Q
  <2>3. KnownInv'
    <3> SUFFICES ASSUME NEW q \in Queries
                 PROVE  /\ qry[q].name # "none" => task'[q][Masters[q]].st # "none"
                        /\ \A x \in QueuedAt(q) : task'[q][x].st # "none"
      BY <1>2, <1>3 DEF KnownInv
    <3>1. \A x \in Servers : task[q][x].st # "none" => task'[q][x].st # "none"
      BY <2>1
    <3>2. \A x \in QueuedAt(q) : x \in Servers
      BY DEF QueuedAt
    <3> QED BY <3>1, <3>2, MasterType DEF EverywhereInv, KnownInv
  <2> QED BY <2>2, <2>3
<1> QED BY <1>4, <1>5

(* A new query is only with its master.                                    *)
LEMMA ClientQueryEverywhere ==
    ASSUME EverywhereInv, NEW q \in Queries, ClientQuery(q)
    PROVE  ChangesInv' /\ KnownInv'
<1> DEFINE m == Masters[q]
           u == siridb_query_run(task[q][m])
<1>1. m \in Servers /\ UNCHANGED fifo
  BY MasterType DEF ClientQuery
<1>2. /\ NotQueued(q) /\ \A s \in Servers : task[q][s] = NoTask
  BY DEF ClientQuery, EverywhereInv, QueryInv, FreshInv
<1>3. u.st = "parse" /\ u.ans = <<>>
  BY <1>1, <1>2, NoTaskOK DEF siridb_query_run, TaskFields
<1> HIDE DEF u
<1>4. /\ task'[q][m] = u
      /\ \A x \in Servers : x # m => task'[q][x] = NoTask
      /\ \A r \in Queries : r # q => task'[r] = task[r]
  BY <1>1, <1>2 DEF ClientQuery, EverywhereInv, QueryInv, ShapeInv, u
<1>5. \A r \in Queries : r # q => qry'[r] = qry[r]
  BY DEF ClientQuery, EverywhereInv, QueryInv, QryInv
<1>6. \A r \in Queries : QueuedAt(r)' = QueuedAt(r)
  BY <1>1 DEF QueuedAt
<1>7. QueuedAt(q) = {}
  BY <1>2 DEF QueuedAt, NotQueued
<1>8. ChangesInv'
  <2> SUFFICES ASSUME NEW r \in Queries, IsChange(r)'
               PROVE  ChangeOK(Nodes(r)', Masters[r], task'[r], QueuedAt(r))
    BY <1>6 DEF ChangesInv
  <2>1. CASE r # q
    <3>1. Nodes(r)' = Nodes(r) /\ IsChange(r)
      BY <1>5, <2>1 DEF Nodes, IsChange
    <3> QED BY <1>4, <2>1, <3>1 DEF EverywhereInv, ChangesInv
  <2>2. CASE r = q
    <3> DEFINE S == Nodes(q)'
               tk2 == task'[q]
    <3>1. /\ tk2[m] = u /\ \A x \in Servers : x # m => tk2[x] = NoTask
      BY <1>4
    <3> HIDE DEF S, m, tk2
    <3>2. \A x \in Servers : Passed(S, m, x, tk2[x])
      BY <1>3, <3>1, NotOk, NoTaskOK DEF Passed
    <3>3. Promised(S, m, tk2[m], tk2)
      BY <1>3, <3>1, NotOk DEF Promised, Asked
    <3>4. \A x \in Servers : ~Given(m, x, tk2[x])
      BY <1>3, <3>1, NotOk, NoTaskOK DEF Given, Asked
    <3>5. ChangeOK(S, m, tk2, QueuedAt(q))
      BY <3>2, <3>3, <3>4 DEF ChangeOK
    <3> QED BY <2>2, <3>5 DEF S, m, tk2
  <2> QED BY <2>1, <2>2
<1>9. KnownInv'
  <2> SUFFICES ASSUME NEW r \in Queries
               PROVE  /\ qry'[r].name # "none" => task'[r][Masters[r]].st # "none"
                      /\ \A x \in QueuedAt(r) : task'[r][x].st # "none"
    BY <1>6 DEF KnownInv
  <2>1. CASE r # q
    BY <1>4, <1>5, <2>1 DEF EverywhereInv, KnownInv
  <2>2. CASE r = q
    BY <1>3, <1>4, <1>7, <2>2
  <2> QED BY <2>1, <2>2
<1> QED BY <1>8, <1>9

(* No query is sent at the start.                                          *)
LEMMA EverywhereInit == Init => EverywhereInv
<1> SUFFICES ASSUME Init PROVE EverywhereInv
  OBVIOUS
<1>1. QueryInv
  BY InvInit
<1>2. \A q \in Queries : qry[q].name = "none"
  <2> PICK f \in Plans : qry = [q \in Queries |->
           [plan |-> f[q], name |-> "none", denied |-> FALSE, target |-> NoServer]]
    BY DEF Init
  <2> QED OBVIOUS
<1>3. \A q \in Queries : QueuedAt(q) = {}
  BY DEF Init, QueuedAt
<1> QED BY <1>1, <1>2, <1>3 DEF EverywhereInv, ChangesInv, KnownInv, IsChange

(* Every step keeps it.                                                    *)
LEMMA EverywhereNext == EverywhereInv /\ [Next]_vars => EverywhereInv'
<1> SUFFICES ASSUME EverywhereInv, [Next]_vars PROVE EverywhereInv'
  OBVIOUS
<1> DEFINE Goal == ChangesInv' /\ KnownInv'
<1>1. QueryInv'
  BY InvNext DEF EverywhereInv
<1>2. ASSUME UNCHANGED vars \/ \E s \in Servers : SaveTags(s) PROVE Goal
  <2>1. UNCHANGED task /\ UNCHANGED qry /\ UNCHANGED fifo
    BY <1>2 DEF vars, SaveTags
  <2>2. \A q \in Queries : /\ Nodes(q)' = Nodes(q) /\ (IsChange(q)' <=> IsChange(q))
                           /\ QueuedAt(q)' = QueuedAt(q)
    BY <2>1 DEF Nodes, IsChange, QueuedAt
  <2>3. ChangesInv' /\ KnownInv'
    BY <2>1, <2>2 DEF EverywhereInv, ChangesInv, KnownInv
  <2> QED BY <2>3
<1>3. ASSUME NEW q \in Queries, ClientQuery(q) PROVE Goal
  BY <1>3, ClientQueryEverywhere
<1>4. ASSUME NEW q \in Queries, NEW s \in Servers, Step(q, s) PROVE Goal
  BY <1>4, QueryParseEverywhere, NodeFailsEverywhere, SaveFailsEverywhere,
     RunNodeEverywhere DEF Step
<1>5. ASSUME NEW q \in Queries, NEW x \in Servers, OnResponse(q, x) \/ Receive(q, x)
      PROVE  Goal
  BY <1>5, OnResponseEverywhere, ReceiveEverywhere
<1>6. ASSUME NEW q \in Queries, WorkDone(q) PROVE Goal
  BY <1>6, WorkDoneEverywhere
<1>7. ASSUME NEW s \in Servers, Replicate(s) \/ Change(s) PROVE Goal
  BY <1>7, ReplicateEverywhere, ChangeEverywhere
<1> HIDE DEF Goal
<1>8. Goal
  BY <1>2, <1>3, <1>4, <1>5, <1>6, <1>7 DEF Next, Progress
<1> QED BY <1>1, <1>8 DEF EverywhereInv, Goal

(* The invariant holds in every state.                                     *)
THEOREM EverywhereInvHolds == Spec => []EverywhereInv
  BY EverywhereInit, EverywhereNext, PTL DEF Spec

-----------------------------------------------------------------------------
(* A change that is answered.                                              *)

(* If all servers that were asked made the change, and one was asked of    *)
(* every pool, then each server has the change or its pool's queue has.    *)
LEMMA AnsweredEverywhere ==
    ASSUME EverywhereInv, NEW q \in Queries, IsChange(q), Success(q), AllAnswered(q)
    PROVE  /\ \A p \in PoolSet : \E s \in p : task[q][s].did
           /\ \A s \in Servers : task[q][s].st # "none" \/ \E r \in Others(s) : r \in QueuedAt(q)
<1> DEFINE m == Masters[q]
           t == task[q][m]
           S == Nodes(q)
<1>1. m \in Servers /\ t.st = "done" /\ t.ans = <<"ok">>
  BY MasterType DEF Success, Answered
<1>2. ChangeOK(S, m, task[q], QueuedAt(q))
  BY DEF EverywhereInv, ChangesInv
<1>3. t.nulls = 0 /\ \A x \in DOMAIN t.prom : t.prom[x] = "ok"
  BY DEF AllAnswered, Oks
<1>4. /\ \A p \in PoolSet : m \in p \/ \E x \in p : x \in DOMAIN t.prom
      /\ \A x \in DOMAIN t.prom : x \in Servers /\ task[q][x].ans = <<"ok">>
  BY <1>1, <1>2, <1>3 DEF ChangeOK, Promised, Asked
<1>5. \A x \in Servers : task[q][x].ans = <<"ok">> => task[q][x].did /\ task[q][x].st = "done"
  BY <1>2, NotOk DEF ChangeOK, Passed, EverywhereInv, QueryInv, TasksInv, TaskInv
<1>6. ASSUME NEW p \in PoolSet
      PROVE  \E x \in p : x \in Servers /\ task[q][x].ans = <<"ok">> /\ Given(m, x, task[q][x])
  <2>1. CASE m \in p
    BY <1>1, <2>1 DEF Given, Asked
  <2>2. CASE m \notin p
    <3>1. PICK x \in p : x \in DOMAIN t.prom
      BY <1>4, <2>2
    <3>2. x \in Servers /\ task[q][x].ans = <<"ok">> /\ task[q][x].st = "done" /\ x # m
      BY <1>4, <1>5, <2>2, <3>1
    <3> QED BY <3>2 DEF Given
  <2> QED BY <2>1, <2>2
<1>7. \A p \in PoolSet : \E s \in p : task[q][s].did
  BY <1>5, <1>6
<1>8. ASSUME NEW s \in Servers
      PROVE  task[q][s].st # "none" \/ \E r \in Others(s) : r \in QueuedAt(q)
  <2>1. Pool(s) \in PoolSet /\ s \in Pool(s)
    BY ServerHasPool
  <2>2. PICK x \in Pool(s) : /\ x \in Servers /\ task[q][x].ans = <<"ok">>
                             /\ Given(m, x, task[q][x])
    BY <1>6, <2>1
  <2>3. CASE x = s
    BY <1>5, <2>2, <2>3
  <2>4. CASE x # s
    <3>1. x \in Others(s) /\ s \in Others(x)
      <4>1. x \in Others(s)
        BY <2>2, <2>4 DEF Others
      <4> QED BY <4>1, TwoAtMost
    <3>2. task[q][s].st # "none" \/ x \in QueuedAt(q)
      BY <1>2, <2>2, <3>1 DEF ChangeOK
    <3> QED BY <3>1, <3>2
  <2> QED BY <2>3, <2>4
<1> QED BY <1>7, <1>8

(* A statement with on_update_xxx_response that is answered with success   *)
(* was made in every pool, and every server has it or will get it from the *)
(* queue of its pool: whatever servers are busy, stop, come back, or do    *)
(* not answer in time, and whatever other queries run.                     *)
THEOREM UpdateIsEverywhereHolds == Spec => []UpdateIsEverywhere
<1>1. EverywhereInv => UpdateIsEverywhere
  <2> SUFFICES ASSUME EverywhereInv, NEW q \in Queries, Success(q), IsUpdate(q)
               PROVE  /\ \A p \in PoolSet : \E s \in p : task[q][s].did
                      /\ \A s \in Servers :
                            \/ task[q][s].st # "none"
                            \/ \E r \in Others(s) : \E i \in 1..Len(fifo[r]) : fifo[r][i] = q
    BY DEF UpdateIsEverywhere
  <2> DEFINE m == Masters[q]
             t == task[q][m]
             S == Nodes(q)
  <2>1. m \in Servers /\ t.st = "done" /\ t.ans = <<"ok">>
    BY MasterType DEF Success, Answered
  <2>2. qry[q].name # "none" /\ qry[q].name \in DOMAIN Statement
    BY <2>1, Running DEF EverywhereInv, QueryInv, QryInv, Names
  <2>3. PICK k \in 1..Len(S) : S[k].cb = "on_update_xxx_response"
    BY DEF IsUpdate
  <2>4. IsChange(q) /\ Len(S) \in Nat
    <3>1. ~NoUpdate(S)
      BY <2>3 DEF NoUpdate
    <3>2. ChangeStmt(S)
      BY <2>2, <3>1, StatementKinds DEF Nodes, QuietStmt
    <3> QED BY <2>2, <3>2, StatementsOK DEF IsChange, StatementOK, Nodes
  <2>5. S[Len(S)].cb = "on_update_xxx_response"
    <3>1. CASE k = Len(S)
      BY <2>3, <3>1
    <3>2. CASE k # Len(S)
      <4>1. k \in 1..(Len(S) - 1)
        BY <2>4, <3>2
      <4> QED BY <2>3, <2>4, <4>1 DEF IsChange, ChangeStmt, Early
    <3> QED BY <3>1, <3>2
  <2>6. AllAnswered(q)
    <3>1. Promised(S, m, t, task[q])
      BY <2>4 DEF EverywhereInv, ChangesInv, ChangeOK
    <3> QED BY <2>1, <2>5, <3>1 DEF Promised, Asked, AllAnswered
  <2>7. \A r : r \in QueuedAt(q) => \E i \in 1..Len(fifo[r]) : fifo[r][i] = q
    BY DEF QueuedAt
  <2> QED BY <2>4, <2>6, <2>7, AnsweredEverywhere
<1> QED BY <1>1, EverywhereInvHolds, PTL

-----------------------------------------------------------------------------
(* The object, if all changes at the same time do the same to it.          *)

(* Statements that change something come together only if they do the same *)
(* to the object: any number of them, with any other statements.           *)
SameEffect ==
    \A f \in Plans : \E e \in {"create", "drop", "set"} :
        \A q \in Queries : f[q] # "none" =>
            \A k \in 1..Len(Statement[f[q]]) : Statement[f[q]][k].eff \in {"none", e}

(* No series are tagged: that is a count as well as a change.              *)
NoTagging ==
    \A f \in Plans, q \in Queries : f[q] \notin {"tag_series", "untag_series"}

Value(e) == Effect(e, "absent")
Live(t) == t.st \in {"parse", "node", "wait", "work"}

(* The statements that come together.                                      *)
PlansInv(e) ==
    \A q \in Queries :
        /\ qry[q].name \in {"none", qry[q].plan}
        /\ qry[q].plan \notin {"tag_series", "untag_series"}
        /\ qry[q].plan # "none" =>
             \A k \in 1..Len(Statement[qry[q].plan]) :
                 Statement[qry[q].plan][k].eff \in {"none", e}

(* A query that made its change: the object is changed while it runs, and  *)
(* when it is through the change is also on disk, if it got there.         *)
DidOK(q, s, t, e) ==
    t.did =>
        /\ t.st # "none" /\ ~NoEffect(Nodes(q))
        /\ Live(t) => obj[s] = Value(e)
        /\ IsChange(q) /\ Asked(t) /\ s \notin unsaved =>
              obj[s] = Value(e) /\ saved[s] = Value(e)
DidInv(e) == \A q \in Queries, s \in Servers : DidOK(q, s, task[q][s], e)

(* If the object is not what it was, then some query changed it.           *)
CauseInv(o) ==
    \A s \in Servers : obj[s] # o \/ saved[s] # o => \E q \in Queries : task[q][s].did

(* What is not on disk is the change.                                      *)
DiskInv(e) == \A s \in Servers : obj[s] \in {saved[s], Value(e)}

ValuesInv ==
    \E o \in Objects, e \in {"create", "drop", "set"} :
        PlansInv(e) /\ DidInv(e) /\ CauseInv(o) /\ DiskInv(e)

(* When all effects are e, an effect either leaves the object or gives it  *)
(* the value of e.                                                         *)
LEMMA EffectIs ==
    \A e \in {"create", "drop", "set"} : \A eff \in {"none", e} : \A old :
        Effect(eff, old) = IF eff = "none" THEN old ELSE Value(e)
  BY DEF Effect, Value

(* A step that leaves the object alone and does nothing new.               *)
LEMMA ValuesSame ==
    ASSUME EverywhereInv, ValuesInv, NEW q \in Queries, NEW s \in Servers, NEW u, NEW stays,
           Become(q, s, u, stays), UNCHANGED <<obj, saved, unsaved, qry>>,
           task[q][s].st = "none" \/ Live(task[q][s]),
           u.did <=> task[q][s].did, u.st # "none",
           IsChange(q) /\ Asked(u) => Asked(task[q][s]) \/ ~u.did
    PROVE  ValuesInv'
<1>1. PICK o \in Objects, e \in {"create", "drop", "set"} :
        PlansInv(e) /\ DidInv(e) /\ CauseInv(o) /\ DiskInv(e)
  BY DEF ValuesInv
<1>2. UNCHANGED obj /\ UNCHANGED saved /\ UNCHANGED unsaved /\ UNCHANGED qry
  OBVIOUS
<1>3. /\ task'[q][s] = u
      /\ \A r \in Queries, x \in Servers : r # q \/ x # s => task'[r][x] = task[r][x]
  BY DEF Become, EverywhereInv, QueryInv, ShapeInv
<1>4. \A r \in Queries : Nodes(r)' = Nodes(r) /\ (IsChange(r)' <=> IsChange(r))
  BY <1>2 DEF Nodes, IsChange
<1>5. PlansInv(e)'
  BY <1>1, <1>2 DEF PlansInv
<1>6. \A r \in Queries, x \in Servers : task'[r][x].did <=> task[r][x].did
  BY <1>3
<1>7. CauseInv(o)'
  <2> SUFFICES ASSUME NEW x \in Servers, obj[x] # o \/ saved[x] # o
               PROVE  \E r \in Queries : task'[r][x].did
    BY <1>2 DEF CauseInv
  <2>1. PICK r \in Queries : task[r][x].did
    BY <1>1 DEF CauseInv
  <2> QED BY <1>6, <2>1
<1>8. DidInv(e)'
  <2> SUFFICES ASSUME NEW r \in Queries, NEW x \in Servers PROVE DidOK(r, x, task[r][x], e)'
    BY DEF DidInv
  <2>1. DidOK(r, x, task[r][x], e)
    BY <1>1 DEF DidInv
  <2>2. DidOK(r, x, task'[r][x], e)
    <3>1. CASE r # q \/ x # s
      BY <1>3, <2>1, <3>1
    <3>2. CASE r = q /\ x = s
      <4>1. DidOK(q, s, u, e)
        BY <2>1, <3>2 DEF DidOK
      <4> QED BY <1>3, <3>2, <4>1
    <3> QED BY <3>1, <3>2
  <2> QED BY <1>2, <1>4, <2>2 DEF DidOK, Live, Asked, Value
<1>9. DiskInv(e)'
  BY <1>1, <1>2 DEF DiskInv, Value, Effect
<1> QED BY <1>1, <1>5, <1>7, <1>8, <1>9 DEF ValuesInv

(* What a handler makes of its query: a change that waits or is through    *)
(* was saved by this handler.                                              *)
LEMMA RunNodeTask ==
    ASSUME EverywhereInv, NEW q \in Queries, NEW s \in Servers, RunNode(q, s)
    PROVE  LET node == Nodes(q)[task[q][s].pc]
           IN  \E u, stays :
                  /\ Become(q, s, u, stays) /\ u.st # "none"
                  /\ u.did <=> task[q][s].did \/ node.eff # "none"
                  /\ IsChange(q) /\ Asked(u) => node.save # "none"
<1> DEFINE t1 == task[q][s]
           node == Nodes(q)[t1.pc]
           t0 == [t1 EXCEPT !.did = t1.did \/ node.eff # "none"]
           Counts == IF node.count = "rows" THEN CountRows(q, t0, node)
                     ELSE {Count(q, s, t0, node)}
           S == Nodes(q)
           Good(u) == /\ u.st # "none"
                      /\ u.did <=> t1.did \/ node.eff # "none"
                      /\ IsChange(q) /\ Asked(u) => node.save # "none"
<1>1. t1.st = "node"
  BY DEF RunNode
<1>2. /\ DOMAIN t1 = TaskFields /\ t1.ans = <<>> /\ qry[q].name # "none"
      /\ StatementOK(S) /\ TaskInv(q, t1)
  BY <1>1, RunningTask
<1>3. t1.pc \in 1..Len(S) /\ Len(S) \in Nat /\ t1.ref = 1
  BY <1>1, <1>2 DEF TaskInv, StatementOK
<1>4. WellFormed(node)
  BY <1>2, <1>3 DEF StatementOK
<1>5. /\ DOMAIN t0 = TaskFields /\ t0.ans = <<>> /\ t0.pc = t1.pc /\ t0.ref = 1
      /\ t0.did <=> t1.did \/ node.eff # "none"
  BY <1>2, <1>3 DEF TaskFields
<1>6. PICK t \in Counts :
       IF IsMaster(q, s) /\ node.go = "forward" /\ (node.count = "row" => t.limit > 0)
       THEN \E sent \in siridb_query_forward(q, s, t) :
            \E u \in SIRINET_PROMISES_CHECK(q, sent) :
                /\ Become(q, s, u, StaysAfter(q, t))
                /\ fifo' = Replicated(q, s, node)
       ELSE IF node.go = "ack" /\ qry[q].target # s
       THEN /\ Become(q, s, [Sent(t, {qry[q].target}, 0) EXCEPT !.st = "wait"], FALSE)
            /\ UNCHANGED fifo
       ELSE /\ Become(q, s, NextNode(q, t), node.go = "next")
            /\ UNCHANGED fifo
  BY Zenon DEF RunNode, Doing
<1> HIDE DEF t0
<1>7. Like(t0, t)
  BY <1>4, <1>5, CountLike
<1> HIDE DEF Counts
<1>8. /\ DOMAIN t = TaskFields /\ t.ans = <<>> /\ t.pc = t1.pc /\ t.ref = 1
      /\ t.did <=> t1.did \/ node.eff # "none"
  BY <1>5, <1>7 DEF Like
<1> HIDE DEF node
<1>9. ASSUME IsChange(q), t1.pc = Len(S) PROVE node.save # "none"
  BY <1>9 DEF IsChange, ChangeStmt, Final, node
<1>10. ASSUME IsChange(q), t1.pc # Len(S) PROVE node.go \in {"next", "async"}
  <2>1. t1.pc \in 1..(Len(S) - 1)
    BY <1>3, <1>10
  <2> QED BY <1>10, <2>1 DEF IsChange, ChangeStmt, Early, node
<1> DEFINE fwds == IsMaster(q, s) /\ node.go = "forward" /\ (node.count = "row" => t.limit > 0)
<1>11. \E u, stays : Become(q, s, u, stays) /\ Good(u)
  <2>1. CASE fwds
    <3>1. PICK sent \in siridb_query_forward(q, s, t) :
            \E u \in SIRINET_PROMISES_CHECK(q, sent) : Become(q, s, u, StaysAfter(q, t))
      BY <1>6, <2>1
    <3>2. PICK u \in SIRINET_PROMISES_CHECK(q, sent) : Become(q, s, u, StaysAfter(q, t))
      BY <3>1
    <3>3. PICK X, k : sent = Sent(t, X, k)
      BY ForwardSends
    <3>4. /\ DOMAIN sent = TaskFields /\ sent.pc = t1.pc /\ sent.ref = 2
          /\ sent.ans = <<>> /\ sent.did = t.did
      BY <1>8, <3>3, SentOK
    <3>5. Bound(q, sent)
      BY <1>3, <1>4, <2>1, <3>4 DEF Bound, WellFormed, node
    <3>6. Keeps(sent, u)
      BY <3>5, CheckKeeps
    <3>7. IsChange(q) => node.save # "none"
      BY <1>9, <1>10, <2>1
    <3>8. Good(u)
      BY <1>8, <3>4, <3>6, <3>7 DEF Keeps
    <3> QED BY <3>2, <3>8
  <2>2. CASE ~fwds /\ node.go = "ack" /\ qry[q].target # s
    <3> DEFINE sent == Sent(t, {qry[q].target}, 0)
               u == [sent EXCEPT !.st = "wait"]
    <3>1. Become(q, s, u, FALSE)
      BY <1>6, <2>2
    <3>2. DOMAIN sent = TaskFields /\ sent.did = t.did
      BY <1>8, SentOK
    <3> HIDE DEF sent
    <3>3. u.st = "wait" /\ u.did = t.did
      BY <3>2 DEF TaskFields
    <3>4. IsChange(q) => node.save # "none"
      BY <1>9, <1>10, <2>2
    <3> HIDE DEF u
    <3>5. Good(u)
      BY <1>8, <3>3, <3>4
    <3> QED BY <3>1, <3>5
  <2>3. CASE ~fwds /\ ~(node.go = "ack" /\ qry[q].target # s)
    <3> DEFINE u == NextNode(q, t)
    <3>1. Become(q, s, u, node.go = "next")
      BY <1>6, <2>3
    <3>2. Keeps(t, u)
      BY <1>8, NextKeeps
    <3>3. IsChange(q) /\ Asked(u) => node.save # "none"
      <4>1. CASE t1.pc = Len(S)
        BY <1>9, <4>1
      <4>2. CASE t1.pc # Len(S)
        <5>1. u = [t EXCEPT !.st = "node", !.pc = t.pc + 1]
          BY <1>8, <4>2 DEF NextNode
        <5>2. u.st = "node" /\ u.ans = <<>>
          BY <1>8, <5>1 DEF TaskFields
        <5> HIDE DEF u
        <5> QED BY <5>2, NotOk DEF Asked
      <4> QED BY <4>1, <4>2
    <3> HIDE DEF u
    <3>4. Good(u)
      BY <1>8, <3>2, <3>3 DEF Keeps
    <3> QED BY <3>1, <3>4
  <2> QED BY <2>1, <2>2, <2>3
<1> QED BY <1>11, Zenon DEF node

(* A handler changes the object to the value that all changes give it; the *)
(* file of the server becomes the same or stays as it was.                 *)
LEMMA HandlerValues ==
    ASSUME EverywhereInv, ValuesInv, NEW q \in Queries, NEW s \in Servers,
           NEW node, node = Nodes(q)[task[q][s].pc], NEW u, NEW stays,
           task[q][s].st = "node", UNCHANGED qry,
           Become(q, s, u, stays), u.st # "none",
           u.did <=> task[q][s].did \/ node.eff # "none",
           obj' = [obj EXCEPT ![s] = Effect(node.eff, obj[s])],
           saved' \in {saved, [saved EXCEPT ![s] = obj'[s]]},
           unsaved \subseteq unsaved',
           IsChange(q) /\ Asked(u) /\ s \notin unsaved' =>
               saved' = [saved EXCEPT ![s] = obj'[s]]
    PROVE  ValuesInv'
<1> DEFINE t == task[q][s]
<1>1. PICK o \in Objects, e \in {"create", "drop", "set"} :
        PlansInv(e) /\ DidInv(e) /\ CauseInv(o) /\ DiskInv(e)
  BY DEF ValuesInv
<1>2. qry[q].name # "none" /\ t.pc \in 1..Len(Nodes(q))
  BY RunningTask DEF TaskInv
<1>3. node.eff \in {"none", e}
  BY <1>1, <1>2 DEF PlansInv, Nodes
<1>4. Effect(node.eff, obj[s]) = IF node.eff = "none" THEN obj[s] ELSE Value(e)
  BY <1>3, EffectIs
<1>5. node.eff # "none" => ~NoEffect(Nodes(q))
  BY <1>2 DEF NoEffect
<1>6. /\ obj'[s] = IF node.eff = "none" THEN obj[s] ELSE Value(e)
      /\ \A x \in Servers : x # s => obj'[x] = obj[x] /\ saved'[x] = saved[x]
      /\ saved'[s] \in {saved[s], obj'[s]}
      /\ IsChange(q) /\ Asked(u) /\ s \notin unsaved' => saved'[s] = obj'[s]
  BY <1>4 DEF EverywhereInv, QueryInv, ShapeInv
<1>7. /\ task'[q][s] = u
      /\ \A r \in Queries, x \in Servers : r # q \/ x # s => task'[r][x] = task[r][x]
  BY DEF Become, EverywhereInv, QueryInv, ShapeInv
<1>8. \A r \in Queries : Nodes(r)' = Nodes(r) /\ (IsChange(r)' <=> IsChange(r))
  BY DEF Nodes, IsChange
<1>9. PlansInv(e)'
  BY <1>1 DEF PlansInv
<1>10. \A r \in Queries, x \in Servers : task[r][x].did => task'[r][x].did
  BY <1>7
<1>11. CauseInv(o)'
  <2> SUFFICES ASSUME NEW x \in Servers, obj'[x] # o \/ saved'[x] # o
               PROVE  \E r \in Queries : task'[r][x].did
    BY DEF CauseInv
  <2>1. CASE obj[x] # o \/ saved[x] # o
    <3>1. PICK r \in Queries : task[r][x].did
      BY <1>1, <2>1 DEF CauseInv
    <3> QED BY <1>10, <3>1
  <2>2. CASE ~(obj[x] # o \/ saved[x] # o)
    <3>1. x = s /\ node.eff # "none"
      BY <1>6, <2>2
    <3> QED BY <1>7, <3>1
  <2> QED BY <2>1, <2>2
<1>12. \A r \in Queries, x \in Servers : DidOK(r, x, task[r][x], e)
  BY <1>1 DEF DidInv
<1>13. u.did => obj'[s] = Value(e) /\ ~NoEffect(Nodes(q))
  <2>1. Live(t)
    BY DEF Live
  <2> QED BY <1>5, <1>6, <1>12, <2>1 DEF DidOK
<1>14. DidInv(e)'
  <2> SUFFICES ASSUME NEW r \in Queries, NEW x \in Servers PROVE DidOK(r, x, task[r][x], e)'
    BY DEF DidInv
  <2>1. CASE r = q /\ x = s
    <3>1. u.did =>
            /\ u.st # "none" /\ ~NoEffect(Nodes(q))
            /\ Live(u) => obj'[s] = Value(e)
            /\ IsChange(q) /\ Asked(u) /\ s \notin unsaved' =>
                  obj'[s] = Value(e) /\ saved'[s] = Value(e)
      BY <1>6, <1>13
    <3> QED BY <1>7, <1>8, <2>1, <3>1 DEF DidOK, Live, Asked, Value
  <2>2. CASE r # q \/ x # s
    <3> DEFINE w == task[r][x]
    <3>1. DidOK(r, x, w, e) /\ task'[r][x] = w
      BY <1>7, <1>12, <2>2
    <3>2. obj[x] = Value(e) => obj'[x] = Value(e)
      BY <1>6
    <3>3. obj[x] = Value(e) /\ saved[x] = Value(e) => saved'[x] = Value(e)
      BY <1>6, <3>2
    <3>4. x \notin unsaved' => x \notin unsaved
      OBVIOUS
    <3> HIDE DEF w
    <3>5. w.did =>
            /\ w.st # "none" /\ ~NoEffect(Nodes(r))
            /\ Live(w) => obj'[x] = Value(e)
            /\ IsChange(r) /\ Asked(w) /\ x \notin unsaved' =>
                  obj'[x] = Value(e) /\ saved'[x] = Value(e)
      BY <3>1, <3>2, <3>3, <3>4 DEF DidOK
    <3> QED BY <1>8, <3>1, <3>5 DEF DidOK, Live, Asked, Value
  <2> QED BY <2>1, <2>2
<1>15. DiskInv(e)'
  <2> SUFFICES ASSUME NEW x \in Servers PROVE obj'[x] \in {saved'[x], Value(e)}
    BY DEF DiskInv, Value, Effect
  <2>1. obj[x] \in {saved[x], Value(e)}
    BY <1>1 DEF DiskInv
  <2> QED BY <1>6, <2>1
<1> QED BY <1>1, <1>9, <1>11, <1>14, <1>15 DEF ValuesInv

(* The change is on disk when the handler goes on, or it is not.           *)
LEMMA RunNodeValues ==
    ASSUME EverywhereInv, ValuesInv, NEW q \in Queries, NEW s \in Servers, RunNode(q, s)
    PROVE  ValuesInv'
<1>1. PICK node : node = Nodes(q)[task[q][s].pc]
  OBVIOUS
<1>2. PICK u, stays :
        /\ Become(q, s, u, stays) /\ u.st # "none"
        /\ u.did <=> task[q][s].did \/ node.eff # "none"
        /\ IsChange(q) /\ Asked(u) => node.save # "none"
  BY <1>1, RunNodeTask, Zenon
<1>3. /\ task[q][s].st = "node" /\ UNCHANGED qry
      /\ obj' = [obj EXCEPT ![s] = Effect(node.eff, obj[s])]
  BY <1>1 DEF RunNode
<1>4. PICK ok :
        /\ saved' = IF ok THEN [saved EXCEPT ![s] = obj'[s]] ELSE saved
        /\ unsaved' = IF ok \/ node.save = "none" THEN unsaved ELSE unsaved \cup {s}
  BY <1>1 DEF RunNode
<1>5. /\ saved' \in {saved, [saved EXCEPT ![s] = obj'[s]]}
      /\ unsaved \subseteq unsaved'
  BY <1>4
<1>6. IsChange(q) /\ Asked(u) /\ s \notin unsaved' =>
          saved' = [saved EXCEPT ![s] = obj'[s]]
  BY <1>2, <1>4
<1> QED BY <1>1, <1>2, <1>3, <1>5, <1>6, HandlerValues

(* A change that cannot be written stays in memory.                        *)
LEMMA SaveFailsValues ==
    ASSUME EverywhereInv, ValuesInv, NEW q \in Queries, NEW s \in Servers, SaveFails(q, s)
    PROVE  ValuesInv'
<1> DEFINE t == task[q][s]
           d(node) == Doing(t, node)
<1>1. PICK node : node = Nodes(q)[t.pc]
  OBVIOUS
<1>2. PICK u : u = siridb_query_send_error(d(node))
  OBVIOUS
<1>3. /\ t.st = "node" /\ UNCHANGED qry /\ UNCHANGED saved /\ UNCHANGED unsaved
      /\ obj' = [obj EXCEPT ![s] = Effect(node.eff, obj[s])]
      /\ Become(q, s, u, FALSE)
  BY <1>1, <1>2 DEF SaveFails
<1>4. DOMAIN t = TaskFields /\ t.ans = <<>>
  BY <1>3, RunningTask
<1>5. /\ DOMAIN d(node) = TaskFields /\ d(node).ans = <<>>
      /\ d(node).did <=> t.did \/ node.eff # "none"
  BY <1>4, DoingOK
<1> HIDE DEF d
<1>6. /\ ~Asked(u) /\ u.st # "none"
      /\ u.did <=> t.did \/ node.eff # "none"
  BY <1>2, <1>5, ErrorKeeps, ErrorPassed DEF Keeps
<1> QED BY <1>1, <1>3, <1>6, HandlerValues

(* The tags that wait for it are written: what was not on disk is the      *)
(* change.                                                                 *)
LEMMA SaveTagsValues ==
    ASSUME EverywhereInv, ValuesInv, NEW s \in Servers, SaveTags(s)
    PROVE  ValuesInv'
<1>1. PICK o \in Objects, e \in {"create", "drop", "set"} :
        PlansInv(e) /\ DidInv(e) /\ CauseInv(o) /\ DiskInv(e)
  BY DEF ValuesInv
<1>2. /\ obj[s] # saved[s] /\ saved' = [saved EXCEPT ![s] = obj[s]]
      /\ unsaved' = unsaved \ {s}
  BY DEF SaveTags
<1>3. UNCHANGED obj /\ UNCHANGED task /\ UNCHANGED qry
  BY DEF SaveTags
<1>4. /\ obj[s] = Value(e) /\ saved'[s] = Value(e)
      /\ \A x \in Servers : x # s => saved'[x] = saved[x]
  BY <1>1, <1>2 DEF DiskInv, EverywhereInv, QueryInv, ShapeInv
<1>5. \A r \in Queries : Nodes(r)' = Nodes(r) /\ (IsChange(r)' <=> IsChange(r))
  BY <1>3 DEF Nodes, IsChange
<1>6. PlansInv(e)'
  BY <1>1, <1>3 DEF PlansInv
<1>7. CauseInv(o)'
  <2> SUFFICES ASSUME NEW x \in Servers, obj[x] # o \/ saved'[x] # o
               PROVE  \E r \in Queries : task[r][x].did
    BY <1>3 DEF CauseInv
  <2>1. obj[x] # o \/ saved[x] # o
    BY <1>4
  <2> QED BY <1>1, <2>1 DEF CauseInv
<1>8. DidInv(e)'
  <2> SUFFICES ASSUME NEW r \in Queries, NEW x \in Servers PROVE DidOK(r, x, task[r][x], e)'
    BY DEF DidInv
  <2> DEFINE w == task[r][x]
  <2>1. DidOK(r, x, w, e) /\ task'[r][x] = w
    BY <1>1, <1>3 DEF DidInv
  <2>2. x \notin unsaved' => x \notin unsaved \/ x = s
    BY <1>2
  <2> HIDE DEF w
  <2>3. w.did =>
          /\ w.st # "none" /\ ~NoEffect(Nodes(r))
          /\ Live(w) => obj[x] = Value(e)
          /\ IsChange(r) /\ Asked(w) /\ x \notin unsaved' =>
                obj[x] = Value(e) /\ saved'[x] = Value(e)
    BY <1>4, <2>1, <2>2 DEF DidOK
  <2> QED BY <1>3, <1>5, <2>1, <2>3 DEF DidOK, Live, Asked, Value
<1>9. DiskInv(e)'
  <2> SUFFICES ASSUME NEW x \in Servers PROVE obj[x] \in {saved'[x], Value(e)}
    BY <1>3 DEF DiskInv, Value, Effect
  <2>1. obj[x] \in {saved[x], Value(e)}
    BY <1>1 DEF DiskInv
  <2> QED BY <1>4, <2>1
<1> QED BY <1>1, <1>6, <1>7, <1>8, <1>9 DEF ValuesInv

(* The other steps of a query leave the object alone.                      *)
LEMMA ParseValues ==
    ASSUME EverywhereInv, ValuesInv, NEW q \in Queries, NEW s \in Servers,
           QUERY_parse(q, s) \/ NodeFails(q, s)
    PROVE  ValuesInv'
<1> DEFINE t == task[q][s]
           first == [t EXCEPT !.st = "node", !.pc = 1]
<1>1. t.st \in {"parse", "node"} /\ UNCHANGED <<obj, saved, unsaved, qry>>
  BY DEF QUERY_parse, NodeFails
<1>2. DOMAIN t = TaskFields /\ t.ans = <<>> /\ Live(t)
  BY <1>1, RunningTask DEF Live
<1>3. first.st = "node" /\ first.ans = <<>> /\ first.did = t.did
  BY <1>2 DEF TaskFields
<1>4. \/ Become(q, s, first, FALSE)
      \/ Become(q, s, siridb_query_send_error(t), FALSE)
  BY DEF QUERY_parse, NodeFails
<1> HIDE DEF first
<1>5. ~Asked(first)
  BY <1>3, NotOk DEF Asked
<1>6. CASE Become(q, s, first, FALSE)
  BY <1>1, <1>2, <1>3, <1>5, <1>6, ValuesSame
<1>7. CASE Become(q, s, siridb_query_send_error(t), FALSE)
  <2>1. Keeps(t, siridb_query_send_error(t)) /\ ~Asked(siridb_query_send_error(t))
    BY <1>2, ErrorKeeps, ErrorPassed
  <2> QED BY <1>1, <1>2, <1>7, <2>1, ValuesSame DEF Keeps
<1> QED BY <1>4, <1>6, <1>7

(* A server that does not have the query has not made its change.          *)
LEMMA NoneDidNot ==
    ASSUME ValuesInv, NEW q \in Queries, NEW s \in Servers, task[q][s].st = "none"
    PROVE  ~task[q][s].did
<1>1. PICK e : DidOK(q, s, task[q][s], e)
  BY DEF ValuesInv, DidInv
<1> QED BY <1>1 DEF DidOK

(* A query that arrives from another pool has not touched the object yet.  *)
LEMMA ReceiveValues ==
    ASSUME EverywhereInv, ValuesInv, NEW q \in Queries, NEW x \in Servers, Receive(q, x)
    PROVE  ValuesInv'
<1> DEFINE node == Nodes(q)[task[q][Masters[q]].pc]
           run == siridb_query_run(NoTask)
<1>1. task[q][x].st = "none" /\ UNCHANGED <<obj, saved, unsaved, qry>>
  BY DEF Receive, Waiting
<1>2. ~task[q][x].did
  BY <1>1, NoneDidNot
<1> HIDE DEF node
<1>3. CASE node.fwd = "groups" \/ node.go = "ack"
  <2>1. PICK a \in {"ok", "error"} :
            Become(q, x, [NoTask EXCEPT !.st = "done", !.ans = <<a>>,
                          !.n[x] = IF node.fwd = "groups" THEN 1 ELSE 0], FALSE)
    BY <1>3 DEF Receive, node
  <2> DEFINE u == [NoTask EXCEPT !.st = "done", !.ans = <<a>>,
                          !.n[x] = IF node.fwd = "groups" THEN 1 ELSE 0]
  <2>2. u.st = "done" /\ ~u.did
    BY NoTaskOK DEF TaskFields
  <2> HIDE DEF u
  <2>3. Become(q, x, u, FALSE)
    BY <2>1 DEF u
  <2> QED BY <1>1, <1>2, <2>2, <2>3, ValuesSame
<1>4. CASE ~(node.fwd = "groups" \/ node.go = "ack")
  <2>1. Become(q, x, run, FALSE)
    BY <1>4 DEF Receive, node
  <2>2. run.st = "parse" /\ ~run.did
    BY NoTaskOK DEF siridb_query_run, TaskFields
  <2> HIDE DEF run
  <2> QED BY <1>1, <1>2, <2>1, <2>2, ValuesSame
<1> QED BY <1>3, <1>4

(* A query that arrives from the queue of the other server neither.        *)
LEMMA ReplicateValues ==
    ASSUME EverywhereInv, ValuesInv, NEW s \in Servers, Replicate(s)
    PROVE  ValuesInv'
<1> DEFINE run == siridb_query_run(NoTask)
<1>1. fifo[s] \in Seq(Queries) /\ fifo[s] # <<>> /\ UNCHANGED <<obj, saved, unsaved, qry>>
  BY DEF Replicate, EverywhereInv, QueryInv, QueueInv
<1>2. PICK q \in Queries : q = Head(fifo[s])
  BY <1>1
<1>3. PICK r \in Others(s) : task[q][r].st = "none" /\ Become(q, r, run, FALSE)
  BY <1>2 DEF Replicate
<1>4. r \in Servers
  BY TwoAtMost
<1>5. ~task[q][r].did
  BY <1>3, <1>4, NoneDidNot
<1>6. run.st = "parse" /\ ~run.did
  BY NoTaskOK DEF siridb_query_run, TaskFields
<1> HIDE DEF run
<1> QED BY <1>1, <1>3, <1>4, <1>5, <1>6, ValuesSame

(* An answer of another server touches no object.                          *)
LEMMA OnResponseValues ==
    ASSUME EverywhereInv, ValuesInv, NEW q \in Queries, NEW x \in Servers, OnResponse(q, x)
    PROVE  ValuesInv'
<1> DEFINE m == Masters[q]
           t == task[q][m]
<1>1. m \in Servers /\ t.st = "wait" /\ UNCHANGED <<obj, saved, unsaved, qry>>
  BY MasterType DEF OnResponse
<1>2. DOMAIN t = TaskFields /\ TaskInv(q, t)
  BY <1>1, RunningTask
<1>3. PICK a : \E u \in SIRINET_PROMISES_CHECK(q, [t EXCEPT !.prom[x] = a]) :
          Become(q, m, u, StaysAfter(q, t))
  BY Zenon DEF OnResponse
<1> DEFINE v == [t EXCEPT !.prom[x] = a]
<1>4. Bound(q, v) /\ v.did = t.did
  BY <1>1, <1>2 DEF Bound, TaskInv, TaskFields
<1> HIDE DEF v
<1>5. PICK u \in SIRINET_PROMISES_CHECK(q, v) : Become(q, m, u, StaysAfter(q, t))
  BY <1>3 DEF v
<1>6. Keeps(v, u)
  BY <1>4, CheckKeeps
<1>7. Live(t) /\ Asked(t)
  BY <1>1 DEF Live, Asked
<1> QED BY <1>1, <1>4, <1>5, <1>6, <1>7, ValuesSame DEF Keeps

(* The work in a thread touches no object: it is not part of a change.     *)
LEMMA WorkDoneValues ==
    ASSUME EverywhereInv, ValuesInv, NEW q \in Queries, WorkDone(q)
    PROVE  ValuesInv'
<1> DEFINE m == Masters[q]
           t == task[q][m]
           Less(u) == [u EXCEPT !.ref = u.ref - 1]
<1>1. m \in Servers /\ t.st = "work" /\ UNCHANGED <<obj, saved, unsaved, qry>>
  BY MasterType DEF WorkDone
<1>2. DOMAIN t = TaskFields /\ Live(t)
  BY <1>1, RunningTask DEF Live
<1>3. ~IsChange(q)
  BY <1>1 DEF EverywhereInv, ChangesInv, ChangeOK, Passed
<1>4. PICK u \in {NextNode(q, t), siridb_query_send_error(t)} :
        Become(q, m, Less(u), FALSE)
  BY DEF WorkDone
<1>5. Keeps(t, u)
  BY <1>2, <1>4, NextKeeps, ErrorKeeps
<1>6. DOMAIN u = TaskFields
  BY <1>2, <1>4 DEF NextNode, siridb_send_query_result, siridb_query_send_error,
     Answer, TaskFields
<1>7. Less(u).st # "none" /\ Less(u).did = t.did
  BY <1>5, <1>6 DEF Keeps, TaskFields
<1> HIDE DEF Less
<1> QED BY <1>1, <1>2, <1>3, <1>4, <1>7, ValuesSame

(* A server that stops comes back with what is on disk; a change that is   *)
(* through is on disk.                                                     *)
LEMMA ChangeValues ==
    ASSUME EverywhereInv, ValuesInv, NEW s \in Servers, Change(s)
    PROVE  ValuesInv'
<1>1. PICK o \in Objects, e \in {"create", "drop", "set"} :
        PlansInv(e) /\ DidInv(e) /\ CauseInv(o) /\ DiskInv(e)
  BY DEF ValuesInv
<1>2. PICK u \in {"accessible", "online", "offline"} :
        IF u = "offline"
        THEN /\ task' = [q \in Queries |-> [task[q] EXCEPT ![s] =
                   IF task[q][s].st \in {"none", "done"} THEN task[q][s]
                   ELSE [task[q][s] EXCEPT !.st = "lost"]]]
             /\ cpu' = [cpu EXCEPT ![s] = 0]
             /\ obj' = [obj EXCEPT ![s] = saved[s]]
        ELSE UNCHANGED <<task, cpu, obj>>
  BY DEF Change
<1>3. UNCHANGED saved /\ UNCHANGED unsaved /\ UNCHANGED qry
  BY DEF Change
<1>4. \A r \in Queries : Nodes(r)' = Nodes(r) /\ (IsChange(r)' <=> IsChange(r))
  BY <1>3 DEF Nodes, IsChange
<1>5. PlansInv(e)'
  BY <1>1, <1>3 DEF PlansInv
<1>6. CASE u # "offline"
  <2>1. UNCHANGED task /\ UNCHANGED obj
    BY <1>2, <1>6
  <2>2. CauseInv(o)' /\ DidInv(e)'
    BY <1>1, <1>3, <1>4, <2>1 DEF CauseInv, DidInv, DidOK, Live, Asked, Value
  <2>3. DiskInv(e)'
    BY <1>1, <1>3, <2>1 DEF DiskInv, Value, Effect
  <2> QED BY <1>1, <1>5, <2>2, <2>3 DEF ValuesInv
<1>7. CASE u = "offline"
  <2>1. /\ obj'[s] = saved[s] /\ \A x \in Servers : x # s => obj'[x] = obj[x]
    BY <1>2, <1>7 DEF EverywhereInv, QueryInv, ShapeInv
  <2>2. ASSUME NEW q \in Queries, NEW x \in Servers
        PROVE  /\ task'[q][x].did = task[q][x].did
               /\ task'[q][x] = task[q][x] \/ (x = s /\ task'[q][x].st = "lost" /\ task'[q][x].ans = <<>>)
               /\ x = s => ~Live(task'[q][x]) /\ (Asked(task'[q][x]) => task'[q][x] = task[q][x])
    <3> DEFINE t == task[q][s]
               lost == [t EXCEPT !.st = "lost"]
    <3>1. /\ DOMAIN t = TaskFields /\ (t.st # "done" => t.ans = <<>>)
          /\ t.st \in {"none", "parse", "node", "wait", "work", "done", "lost"}
      BY DEF EverywhereInv, QueryInv, TasksInv, TaskInv
    <3>2. t.st # "done" => lost.st = "lost" /\ lost.ans = <<>> /\ lost.did = t.did
      BY <3>1 DEF TaskFields
    <3>3. task'[q] = [task[q] EXCEPT ![s] =
                         IF t.st \in {"none", "done"} THEN t ELSE lost]
      BY <1>2, <1>7
    <3>4. DOMAIN task[q] = Servers
      BY DEF EverywhereInv, QueryInv, ShapeInv
    <3>5. t = task[q][s]
      OBVIOUS
    <3> HIDE DEF t, lost
    <3>6. /\ x # s => task'[q][x] = task[q][x]
          /\ task'[q][s] = IF t.st \in {"none", "done"} THEN t ELSE lost
      BY <3>3, <3>4
    <3>7. CASE x # s
      BY <3>6, <3>7
    <3>8. CASE x = s /\ t.st \in {"none", "done"}
      <4>1. task'[q][x] = t /\ task[q][x] = t
        BY <3>5, <3>6, <3>8
      <4> QED BY <3>8, <4>1 DEF Live
    <3>9. CASE x = s /\ t.st \notin {"none", "done"}
      <4>1. task'[q][x] = lost /\ task[q][x] = t
        BY <3>5, <3>6, <3>9
      <4> QED BY <3>2, <3>9, <4>1, NotOk DEF Live, Asked
    <3> QED BY <3>7, <3>8, <3>9
  <2>3. CauseInv(o)'
    <3> SUFFICES ASSUME NEW x \in Servers, obj'[x] # o \/ saved[x] # o
                 PROVE  \E r \in Queries : task'[r][x].did
      BY <1>3 DEF CauseInv
    <3>1. obj[x] # o \/ saved[x] # o
      BY <2>1
    <3>2. PICK r \in Queries : task[r][x].did
      BY <1>1, <3>1 DEF CauseInv
    <3> QED BY <2>2, <3>2
  <2>4. DidInv(e)'
    <3> SUFFICES ASSUME NEW r \in Queries, NEW x \in Servers PROVE DidOK(r, x, task[r][x], e)'
      BY DEF DidInv
    <3> DEFINE w == task'[r][x]
               z == task[r][x]
    <3>1. DidOK(r, x, z, e)
      BY <1>1 DEF DidInv
    <3>2. /\ w.did = z.did
          /\ w = z \/ (x = s /\ w.st = "lost" /\ w.ans = <<>>)
          /\ x = s => ~Live(w) /\ (Asked(w) => w = z)
      BY <2>2
    <3>3. x # s => obj'[x] = obj[x]
      BY <2>1
    <3>4. x = s => obj'[x] = saved[x]
      BY <2>1
    <3> HIDE DEF w, z
    <3>5. w.did =>
            /\ w.st # "none" /\ ~NoEffect(Nodes(r))
            /\ Live(w) => obj'[x] = Value(e)
            /\ IsChange(r) /\ Asked(w) /\ x \notin unsaved =>
                  obj'[x] = Value(e) /\ saved[x] = Value(e)
      BY <3>1, <3>2, <3>3, <3>4 DEF DidOK
    <3> QED BY <1>3, <1>4, <3>5 DEF DidOK, Live, Asked, Value, w
  <2>5. DiskInv(e)'
    <3> SUFFICES ASSUME NEW x \in Servers PROVE obj'[x] \in {saved[x], Value(e)}
      BY <1>3 DEF DiskInv, Value, Effect
    <3>1. obj[x] \in {saved[x], Value(e)}
      BY <1>1 DEF DiskInv
    <3> QED BY <2>1, <3>1
  <2> QED BY <1>1, <1>5, <2>3, <2>4, <2>5 DEF ValuesInv
<1> QED BY <1>6, <1>7

(* A new query has the statement that was planned, and has done nothing.   *)
LEMMA ClientQueryValues ==
    ASSUME EverywhereInv, ValuesInv, NEW q \in Queries, ClientQuery(q)
    PROVE  ValuesInv'
<1> DEFINE m == Masters[q]
           u == siridb_query_run(task[q][m])
<1>1. PICK o \in Objects, e \in {"create", "drop", "set"} :
        PlansInv(e) /\ DidInv(e) /\ CauseInv(o) /\ DiskInv(e)
  BY DEF ValuesInv
<1>2. m \in Servers /\ UNCHANGED obj /\ UNCHANGED saved /\ UNCHANGED unsaved
  BY MasterType DEF ClientQuery
<1>3. \A s \in Servers : task[q][s] = NoTask
  BY DEF ClientQuery, EverywhereInv, QueryInv, FreshInv
<1>4. ~u.did
  BY <1>2, <1>3, NoTaskOK DEF siridb_query_run, TaskFields
<1> HIDE DEF u
<1>5. /\ task'[q][m] = u
      /\ \A x \in Servers : x # m => task'[q][x] = NoTask
      /\ \A r \in Queries : r # q => task'[r] = task[r]
  BY <1>2, <1>3 DEF ClientQuery, EverywhereInv, QueryInv, ShapeInv, u
<1>6. \A x \in Servers : ~task'[q][x].did /\ ~task[q][x].did
  BY <1>3, <1>4, <1>5, NoTaskOK
<1>7. PICK name \in {qry[q].plan} \ {"none"}, denied \in BOOLEAN, x \in Servers :
        qry' = [qry EXCEPT ![q] =
            [qry[q] EXCEPT !.name = name, !.denied = denied, !.target = x]]
  BY DEF ClientQuery
<1>8. /\ qry'[q].name = qry[q].plan /\ qry'[q].plan = qry[q].plan
      /\ \A r \in Queries : r # q => qry'[r] = qry[r]
  BY <1>7 DEF EverywhereInv, QueryInv, QryInv
<1>9. PlansInv(e)'
  <2> SUFFICES ASSUME NEW r \in Queries
               PROVE  /\ qry'[r].name \in {"none", qry'[r].plan}
                      /\ qry'[r].plan \notin {"tag_series", "untag_series"}
                      /\ qry'[r].plan # "none" =>
                           \A k \in 1..Len(Statement[qry'[r].plan]) :
                               Statement[qry'[r].plan][k].eff \in {"none", e}
    BY DEF PlansInv
  <2>1. qry'[r].plan = qry[r].plan /\ qry'[r].name \in {"none", qry[r].plan}
    BY <1>1, <1>8 DEF PlansInv
  <2> QED BY <1>1, <2>1 DEF PlansInv
<1>10. CauseInv(o)'
  <2> SUFFICES ASSUME NEW y \in Servers, obj[y] # o \/ saved[y] # o
               PROVE  \E r \in Queries : task'[r][y].did
    BY <1>2 DEF CauseInv
  <2>1. PICK r \in Queries : task[r][y].did
    BY <1>1 DEF CauseInv
  <2>2. r # q
    BY <1>6, <2>1
  <2> QED BY <1>5, <2>1, <2>2
<1>11. DidInv(e)'
  <2> SUFFICES ASSUME NEW r \in Queries, NEW y \in Servers PROVE DidOK(r, y, task[r][y], e)'
    BY DEF DidInv
  <2>1. CASE r = q
    BY <1>6, <2>1 DEF DidOK
  <2>2. CASE r # q
    <3>1. DidOK(r, y, task[r][y], e) /\ task'[r] = task[r]
      BY <1>1, <1>5, <2>2 DEF DidInv
    <3>2. Nodes(r)' = Nodes(r) /\ (IsChange(r)' <=> IsChange(r))
      BY <1>8, <2>2 DEF Nodes, IsChange
    <3> QED BY <1>2, <3>1, <3>2 DEF DidOK, Live, Asked, Value
  <2> QED BY <2>1, <2>2
<1>12. DiskInv(e)'
  BY <1>1, <1>2 DEF DiskInv, Value, Effect
<1> QED BY <1>1, <1>9, <1>10, <1>11, <1>12 DEF ValuesInv

(* At the start nothing is done and all objects are the same.              *)
LEMMA ValuesInit == ASSUME SameEffect, NoTagging, Init PROVE ValuesInv
<1>1. PICK o \in {"absent", "old"} : obj = [s \in Servers |-> o] /\ saved = obj
  BY DEF Init
<1>2. PICK f \in Plans : qry = [q \in Queries |->
           [plan |-> f[q], name |-> "none", denied |-> FALSE, target |-> NoServer]]
  BY DEF Init
<1>3. PICK e \in {"create", "drop", "set"} :
        \A q \in Queries : f[q] # "none" =>
            \A k \in 1..Len(Statement[f[q]]) : Statement[f[q]][k].eff \in {"none", e}
  BY DEF SameEffect
<1>4. \A q \in Queries : qry[q].plan = f[q] /\ qry[q].name = "none"
  BY <1>2
<1>5. PlansInv(e)
  BY <1>3, <1>4 DEF PlansInv, NoTagging
<1>6. \A q \in Queries, s \in Servers : ~task[q][s].did
  BY NoTaskOK DEF Init
<1>7. DidInv(e)
  BY <1>6 DEF DidInv, DidOK
<1>8. CauseInv(o) /\ o \in Objects
  BY <1>1 DEF CauseInv, Objects
<1>9. DiskInv(e)
  BY <1>1 DEF DiskInv
<1> QED BY <1>5, <1>7, <1>8, <1>9 DEF ValuesInv

(* Every step keeps the invariant about the objects.                       *)
LEMMA ValuesNext == EverywhereInv /\ ValuesInv /\ [Next]_vars => ValuesInv'
<1> SUFFICES ASSUME EverywhereInv, ValuesInv, [Next]_vars PROVE ValuesInv'
  OBVIOUS
<1>1. ASSUME UNCHANGED vars PROVE ValuesInv'
  <2>1. /\ UNCHANGED task /\ UNCHANGED qry /\ UNCHANGED obj /\ UNCHANGED saved
        /\ UNCHANGED unsaved
    BY <1>1 DEF vars
  <2>2. \A q \in Queries : Nodes(q)' = Nodes(q) /\ (IsChange(q)' <=> IsChange(q))
    BY <2>1 DEF Nodes, IsChange
  <2>3. PICK o \in Objects, e \in {"create", "drop", "set"} :
          PlansInv(e) /\ DidInv(e) /\ CauseInv(o) /\ DiskInv(e)
    BY DEF ValuesInv
  <2>4. PlansInv(e)' /\ DidInv(e)' /\ CauseInv(o)'
    BY <2>1, <2>2, <2>3 DEF PlansInv, DidInv, CauseInv, DidOK, Live, Asked, Value
  <2>5. DiskInv(e)'
    BY <2>1, <2>3 DEF DiskInv, Value, Effect
  <2> QED BY <2>3, <2>4, <2>5 DEF ValuesInv
<1>2. ASSUME NEW q \in Queries, ClientQuery(q) PROVE ValuesInv'
  BY <1>2, ClientQueryValues
<1>3. ASSUME NEW q \in Queries, NEW s \in Servers, Step(q, s) PROVE ValuesInv'
  BY <1>3, ParseValues, SaveFailsValues, RunNodeValues DEF Step
<1>4. ASSUME NEW q \in Queries, NEW x \in Servers, OnResponse(q, x) \/ Receive(q, x)
      PROVE  ValuesInv'
  BY <1>4, OnResponseValues, ReceiveValues
<1>5. ASSUME NEW q \in Queries, WorkDone(q) PROVE ValuesInv'
  BY <1>5, WorkDoneValues
<1>6. ASSUME NEW s \in Servers, Replicate(s) \/ SaveTags(s) \/ Change(s)
      PROVE  ValuesInv'
  BY <1>6, ReplicateValues, SaveTagsValues, ChangeValues
<1> QED BY <1>1, <1>2, <1>3, <1>4, <1>5, <1>6 DEF Next, Progress

-----------------------------------------------------------------------------
(* Theorems.                                                               *)

(* When nothing is left to do and all said yes, all servers have the same  *)
(* object: either nobody changed it, or everybody did.                     *)
LEMMA ValuesConverge == ASSUME EverywhereInv, ValuesInv PROVE Converged
<1> SUFFICES ASSUME \A s \in Servers : fifo[s] = <<>>,
                    \A q \in Queries, s \in Servers :
                        task[q][s].st = "none" \/ task[q][s].ans = <<"ok">>,
                    \A q \in Queries : AllAnswered(q), unsaved = {},
                    NEW s \in Servers, NEW x \in Servers
             PROVE  obj[s] = obj[x]
  BY DEF Converged
<1>1. PICK o \in Objects, e \in {"create", "drop", "set"} :
        PlansInv(e) /\ DidInv(e) /\ CauseInv(o) /\ DiskInv(e)
  BY DEF ValuesInv
<1>2. CASE \A q \in Queries, y \in Servers : ~task[q][y].did
  BY <1>1, <1>2 DEF CauseInv
<1>3. CASE \E q \in Queries, y \in Servers : task[q][y].did
  <2>1. PICK q \in Queries, y \in Servers : task[q][y].did
    BY <1>3
  <2>2. task[q][y].st # "none" /\ ~NoEffect(Nodes(q))
    BY <1>1, <2>1 DEF DidInv, DidOK
  <2>3. qry[q].name # "none" /\ qry[q].name \in DOMAIN Statement
    BY <2>2, Running DEF EverywhereInv, QueryInv, QryInv, Names
  <2>4. IsChange(q)
    BY <1>1, <2>2, <2>3, StatementKinds DEF IsChange, Nodes, QuietStmt, PlansInv
  <2>5. Success(q)
    <3>1. Masters[q] \in Servers /\ task[q][Masters[q]].st # "none"
      BY <2>3, MasterType DEF EverywhereInv, KnownInv
    <3>2. task[q][Masters[q]].ans = <<"ok">>
      BY <3>1
    <3>3. task[q][Masters[q]].st = "done"
      BY <3>1, <3>2, NotOk DEF EverywhereInv, QueryInv, TasksInv, TaskInv
    <3> QED BY <3>2, <3>3 DEF Success, Answered
  <2>6. \A r : r \notin QueuedAt(q)
    BY DEF QueuedAt
  <2>7. \A z \in Servers : task[q][z].st # "none"
    BY <2>4, <2>5, <2>6, AnsweredEverywhere
  <2>8. ASSUME NEW z \in Servers PROVE obj[z] = Value(e)
    <3>1. task[q][z].ans = <<"ok">>
      BY <2>7
    <3>2. task[q][z].did
      BY <2>4, <3>1 DEF EverywhereInv, ChangesInv, ChangeOK, Passed
    <3> QED BY <1>1, <2>4, <3>1, <3>2 DEF DidInv, DidOK, Asked
  <2> QED BY <2>8
<1> QED BY <1>2, <1>3

(* For statements of which the changes do the same to the object, both     *)
(* parts of ChangesHold: an update that is answered with success is made   *)
(* in every pool and is, or will be, on every server; and when the queues  *)
(* of siridb_query_forward and on_query are empty, all servers answered    *)
(* with success and no change waits to be written (a file that could not   *)
(* be written, tags that the thread of groups.c has still to save), all    *)
(* servers have the same groups, tags, users and settings, whoever was     *)
(* restarted in between.                                                   *)
THEOREM ChangesHoldHolds ==
    ASSUME SameEffect, NoTagging
    PROVE  Spec => []ChangesHold
<1>1. Init => EverywhereInv /\ ValuesInv
  BY EverywhereInit, ValuesInit
<1>2. (EverywhereInv /\ ValuesInv) /\ [Next]_vars => (EverywhereInv /\ ValuesInv)'
  BY EverywhereNext, ValuesNext
<1>3. EverywhereInv /\ ValuesInv => Converged
  BY ValuesConverge
<1> QED BY <1>1, <1>2, <1>3, UpdateIsEverywhereHolds, PTL DEF Spec, ChangesHold

-----------------------------------------------------------------------------
(* Sums of zeros and ones.  The folds of the library are recursive         *)
(* functions on the subsets of a set; the smallest subset with a wrong sum *)
(* does not exist.                                                         *)

(* A set of numbers has a smallest one.                                    *)
LEMMA Smallest ==
    ASSUME NEW S, S \subseteq Nat, S # {}
    PROVE  \E n \in S : \A m \in S : n <= m
<1> DEFINE R == OpToRel(<, Nat)
<1>1. IsWellFoundedOn(R, Nat)
  BY NatLessThanWellFounded
<1>2. \A x, y \in Nat : <<y, x>> \in R <=> y < x
  BY DEF OpToRel
<1> HIDE DEF R
<1>3. PICK n \in S : \A m \in S : ~ (<<m, n>> \in R)
  BY <1>1, WFMin
<1>4. ASSUME NEW m \in S PROVE n <= m
  <2>1. m \in Nat /\ n \in Nat /\ ~ (<<m, n>> \in R)
    BY <1>3
  <2>2. ~ (m < n)
    BY <1>2, <2>1
  <2> QED BY <2>1, <2>2
<1> QED BY <1>4

(* What the folds of the library compute: g has the sum of each subset.    *)
Any(s) == CHOOSE x \in s : TRUE
Summed(g, f, S) ==
    g = [s \in SUBSET S |-> IF s = {} THEN 0 ELSE f[Any(s)] + g[s \ {Any(s)}]]
Ones(f, s) == {x \in s : f[x] = 1}

(* A set of zeros and ones and one element less.                           *)
LEMMA OneLess ==
    ASSUME NEW f, NEW s, IsFiniteSet(s), s # {}, \A x \in s : f[x] \in 0..1
    PROVE  /\ Any(s) \in s /\ IsFiniteSet(s \ {Any(s)})
           /\ Cardinality(s \ {Any(s)}) = Cardinality(s) - 1 /\ Cardinality(s) \in Nat
           /\ Cardinality(Ones(f, s)) = f[Any(s)] + Cardinality(Ones(f, s \ {Any(s)}))
<1> DEFINE a == Any(s)
           r == s \ {a}
<1>1. a \in s
  BY DEF Any
<1> HIDE DEF a
<1>2. IsFiniteSet(r) /\ Cardinality(r) = Cardinality(s) - 1 /\ Cardinality(s) \in Nat
  BY <1>1, FS_RemoveElement, FS_CardinalityType
<1>3. Ones(f, r) \subseteq r
  BY DEF Ones
<1>4. IsFiniteSet(Ones(f, r)) /\ Cardinality(Ones(f, r)) \in Nat
  BY <1>2, <1>3, FS_Subset, FS_CardinalityType
<1>5. Cardinality(Ones(f, s)) = f[a] + Cardinality(Ones(f, r))
  <2>1. CASE f[a] = 0
    <3>1. Ones(f, s) = Ones(f, r)
      BY <1>1, <2>1 DEF Ones
    <3> QED BY <1>4, <2>1, <3>1
  <2>2. CASE f[a] = 1
    <3>1. Ones(f, s) = Ones(f, r) \cup {a} /\ a \notin Ones(f, r)
      BY <1>1, <2>2 DEF Ones
    <3>2. Cardinality(Ones(f, r) \cup {a}) = Cardinality(Ones(f, r)) + 1
      BY <1>4, <3>1, FS_AddElement
    <3> QED BY <1>4, <2>2, <3>1, <3>2
  <2>3. f[a] = 0 \/ f[a] = 1
    BY <1>1
  <2> QED BY <2>1, <2>2, <2>3
<1> QED BY <1>1, <1>2, <1>5 DEF a

(* The sum of zeros and ones is the number of ones.                        *)
LEMMA SumIsCard ==
    ASSUME NEW f, NEW S, IsFiniteSet(S), \A x \in S : f[x] \in 0..1
    PROVE  (CHOOSE g : Summed(g, f, S))[S] = Cardinality(Ones(f, S))
<1> DEFINE card == [s \in SUBSET S |-> Cardinality(Ones(f, s))]
           g == CHOOSE h : Summed(h, f, S)
<1>1. \A s \in SUBSET S : IsFiniteSet(s)
  BY FS_Subset
<1>2. Ones(f, {}) = {} /\ Cardinality({}) = 0
  BY FS_EmptySet DEF Ones
<1>3. Summed(card, f, S)
  <2> SUFFICES ASSUME NEW s \in SUBSET S
               PROVE  card[s] = IF s = {} THEN 0 ELSE f[Any(s)] + card[s \ {Any(s)}]
    BY DEF Summed
  <2>1. CASE s = {}
    BY <1>2, <2>1
  <2>2. CASE s # {}
    <3>1. IsFiniteSet(s) /\ \A x \in s : f[x] \in 0..1
      BY <1>1
    <3>2. Cardinality(Ones(f, s)) = f[Any(s)] + Cardinality(Ones(f, s \ {Any(s)}))
      BY <2>2, <3>1, OneLess
    <3> QED BY <2>2, <3>2
  <2> QED BY <2>1, <2>2
<1>4. Summed(g, f, S)
  BY <1>3
<1> HIDE DEF g
<1>5. \A s \in SUBSET S : g[s] = IF s = {} THEN 0 ELSE f[Any(s)] + g[s \ {Any(s)}]
  BY <1>4 DEF Summed
<1> DEFINE Wrong == {s \in SUBSET S : g[s] # card[s]}
           Sizes == {Cardinality(s) : s \in Wrong}
<1>6. Wrong = {}
  <2> SUFFICES ASSUME Wrong # {} PROVE FALSE
    OBVIOUS
  <2>1. Sizes \subseteq Nat /\ Sizes # {}
    BY <1>1, FS_CardinalityType
  <2>2. PICK n \in Sizes : \A m \in Sizes : n <= m
    BY <2>1, Smallest
  <2>3. PICK s \in Wrong : Cardinality(s) = n
    BY <2>2
  <2>4. s # {}
    BY <1>2, <1>5, <2>3
  <2>5. IsFiniteSet(s) /\ \A x \in s : f[x] \in 0..1
    BY <1>1, <2>3
  <2> DEFINE r == s \ {Any(s)}
  <2>6. /\ Any(s) \in s /\ Cardinality(r) = n - 1 /\ n \in Nat
        /\ Cardinality(Ones(f, s)) = f[Any(s)] + Cardinality(Ones(f, r))
    BY <2>3, <2>4, <2>5, OneLess
  <2>7. r \in SUBSET S /\ r \notin Wrong
    BY <2>2, <2>3, <2>6
  <2>8. g[r] = card[r]
    BY <2>7
  <2>9. g[s] = f[Any(s)] + g[r]
    BY <1>5, <2>3, <2>4
  <2> QED BY <2>3, <2>6, <2>7, <2>8, <2>9
<1>7. g[S] = card[S]
  BY <1>6
<1> QED BY <1>7 DEF g

(* SumFunctionOnSet, SumFunction and MapThenSumSet of zeros and ones.      *)
LEMMA SumOnSet ==
    ASSUME NEW f, NEW S, IsFiniteSet(S), \A x \in S : f[x] \in 0..1
    PROVE  SumFunctionOnSet(f, S) = Cardinality(Ones(f, S))
<1>1. SumFunctionOnSet(f, S) = (CHOOSE g : Summed(g, f, S))[S]
  BY DEF SumFunctionOnSet, FoldFunctionOnSet, MapThenFoldSet, Summed, Any
<1> QED BY <1>1, SumIsCard

(* The same for the other form of the sum.                                 *)
LEMMA SumMapped ==
    ASSUME NEW f, NEW S, IsFiniteSet(S), \A x \in S : f[x] \in 0..1
    PROVE  MapThenSumSet(LAMBDA s : f[s], S) = Cardinality(Ones(f, S))
<1>1. MapThenSumSet(LAMBDA s : f[s], S) = (CHOOSE g : Summed(g, f, S))[S]
  BY DEF MapThenSumSet, MapThenFoldSet, Summed, Any
<1> QED BY <1>1, SumIsCard

-----------------------------------------------------------------------------
(* The statements that count or list.                                      *)

AskCallBacks == CallBacks \ {"on_update_xxx_response", "on_ack_response"}
AskWays == {"pools", "some_pools", "servers", "groups", "update"}

(* A handler goes on here; it counts nothing and has no call-back; it      *)
(* counts nothing and no call-back adds counts.                            *)
Here(node) == node.go \in {"next", "async"}
Idle(node) == node.count = "none" /\ Here(node) /\ node.cb = "none"
Plain(node) == node.count = "none" /\ node.cb \notin AskCallBacks

(* A handler that asks the other servers for their part.  It has counted   *)
(* the own part, except in a select, where the handler before it did.      *)
Asks(node) ==
    node.go = "forward" /\ node.cb \in AskCallBacks /\ node.fwd \in AskWays
CountsAndAsks(node) ==
    /\ node.count \in {"self", "row"} /\ Asks(node)
    /\ node.count = "row" <=> node.cb = "on_list_xxx_response"
    /\ node.count = "row" => node.fwd \in {"pools", "servers"}
AsksOnly(node) ==
    node.count = "none" /\ Asks(node) /\ node.cb # "on_list_xxx_response"

PlainStmt(S) == \A k \in 1..Len(S) : Plain(S[k])
LocalStmt(S) ==
    /\ \A k \in 1..Len(S) : Here(S[k])
    /\ \A k \in 1..(Len(S) - 1) : S[k].count = "none"
    /\ Len(S) \in Nat \ {0} /\ S[Len(S)].count \in {"all", "rows"}
AskStmt(S, c, f) ==
    /\ Len(S) \in Nat /\ c \in 1..Len(S) /\ f \in 1..Len(S) /\ c <= f
    /\ \A k \in 1..Len(S) : k # c => S[k].count = "none"
    /\ \A k \in 1..Len(S) : k # f => Here(S[k])
    /\ S[c].count \in {"self", "row"}
    /\ Asks(S[f])
    /\ S[c].count = "row" <=> S[f].cb = "on_list_xxx_response"
    /\ S[c].count = "row" => c = f /\ S[f].fwd \in {"pools", "servers"}

(* The handlers that count nothing and ask nobody.                         *)
LEMMA IdleHandlers ==
    /\ Idle(enter_alter_stmt) /\ Idle(enter_alter_group) /\ Idle(enter_set_expression)
    /\ Idle(enter_set_name) /\ Idle(enter_alter_tag) /\ Idle(enter_alter_user)
    /\ Idle(enter_set_password) /\ Idle(enter_alter_server) /\ Idle(exit_set_address)
    /\ Idle(exit_set_port) /\ Idle(enter_alter_servers) /\ Idle(enter_where_xxx)
    /\ Idle(enter_set_ignore_threshold) /\ Idle(enter_alter_series)
    /\ Idle(enter_series_match) /\ Idle(exit_tag_series) /\ Idle(exit_untag_series)
    /\ Idle(enter_count_stmt) /\ Idle(exit_count_pools(FALSE))
    /\ Idle(enter_timeit_stmt) /\ Idle(exit_timeit_stmt) /\ Idle(exit_count_users)
    /\ Idle(exit_count_groups(FALSE)) /\ Idle(finish_count_groups)
    /\ Idle(finish_count_tags) /\ Idle(enter_list_stmt) /\ Idle(enter_limit_expr)
    /\ Idle(exit_list_groups(FALSE)) /\ Idle(finish_list_groups)
    /\ Idle(enter_xxx_columns) /\ Idle(finish_list_tags) /\ Idle(exit_list_series)
    /\ Idle(exit_list_users) /\ Idle(enter_create_stmt) /\ Idle(enter_create_user)
    /\ Idle(NewPassword) /\ Idle(enter_drop_stmt) /\ Idle(exit_drop_series)
    /\ Idle(exit_drop_shards) /\ Idle(enter_access_expr) /\ Idle(enter_grant_user)
    /\ Idle(enter_revoke_user) /\ Idle(enter_select_stmt) /\ Idle(enter_merge_as)
    /\ Idle(exit_between_expr) /\ Idle(exit_after_expr) /\ Idle(exit_before_expr)
    /\ Idle(exit_head_expr) /\ Idle(exit_tail_expr) /\ Idle(exit_show_stmt)
    /\ Idle(enter_help) /\ Idle(exit_help_xxx) /\ Idle(exit_calc_stmt)
  BY DEF Idle, Here, enter_alter_stmt, Node, enter_alter_group,
     enter_set_expression, Async, enter_set_name, enter_alter_tag,
     enter_alter_user, enter_set_password, enter_alter_server, exit_set_address,
     exit_set_port, enter_alter_servers, enter_where_xxx,
     enter_set_ignore_threshold, enter_alter_series, enter_series_match,
     exit_tag_series, exit_untag_series, enter_count_stmt, exit_count_pools,
     Counted, Forward, enter_timeit_stmt, exit_timeit_stmt, exit_count_users,
     exit_count_groups, finish_count_groups, finish_count_tags, enter_list_stmt,
     enter_limit_expr, exit_list_groups, finish_list_groups, enter_xxx_columns,
     finish_list_tags, exit_list_series, exit_list_users, enter_create_stmt,
     enter_create_user, NewPassword, enter_drop_stmt, exit_drop_series,
     exit_drop_shards, enter_access_expr, enter_grant_user, enter_revoke_user,
     enter_select_stmt, enter_merge_as, exit_between_expr, exit_after_expr,
     exit_before_expr, exit_head_expr, exit_tail_expr, exit_show_stmt,
     enter_help, exit_help_xxx, exit_calc_stmt

(* The handlers that only look if all servers did what they were asked.    *)
LEMMA PlainHandlers ==
    /\ Plain(exit_alter_group) /\ Plain(exit_alter_tag) /\ Plain(exit_alter_user)
    /\ Plain(exit_set_backup_mode) /\ Plain(SetLogLevelServer)
    /\ Plain(exit_set_drop_threshold) /\ Plain(exit_set_tee)
    /\ Plain(exit_set_timezone) /\ Plain(exit_set_expiration_xxx)
    /\ Plain(exit_set_list_limit) /\ Plain(exit_set_select_points_limit)
    /\ Plain(exit_create_group) /\ Plain(exit_create_user) /\ Plain(exit_drop_group)
    /\ Plain(exit_drop_tag) /\ Plain(exit_drop_user) /\ Plain(exit_drop_server)
    /\ Plain(exit_grant_user) /\ Plain(exit_revoke_user)
  BY DEF Plain, AskCallBacks, CallBacks, exit_alter_group, Update, Forward,
     Node, exit_alter_tag, exit_alter_user, exit_set_backup_mode,
     SetLogLevelServer, exit_set_drop_threshold, Setting, exit_set_tee,
     exit_set_timezone, exit_set_expiration_xxx, Versioned, exit_set_list_limit,
     exit_set_select_points_limit, exit_create_group, exit_create_user,
     exit_drop_group, exit_drop_tag, exit_drop_user, exit_drop_server,
     exit_grant_user, exit_revoke_user

(* The handlers that count here and ask the others for their counts.       *)
LEMMA AskHandlers ==
    /\ CountsAndAsks(exit_set_log_level) /\ CountsAndAsks(enter_tag_series)
    /\ CountsAndAsks(enter_untag_series) /\ CountsAndAsks(exit_count_pools(TRUE))
    /\ CountsAndAsks(exit_count_series) /\ CountsAndAsks(exit_count_series_length)
    /\ CountsAndAsks(exit_count_servers(TRUE))
    /\ CountsAndAsks(exit_count_servers_received)
    /\ CountsAndAsks(exit_count_servers_selected) /\ CountsAndAsks(exit_count_shards)
    /\ CountsAndAsks(exit_count_shards_size) /\ CountsAndAsks(exit_count_groups(TRUE))
    /\ CountsAndAsks(exit_count_tags(TRUE)) /\ CountsAndAsks(exit_list_tags(TRUE))
    /\ CountsAndAsks(exit_list_pools) /\ CountsAndAsks(async_list_series)
    /\ CountsAndAsks(exit_list_servers(TRUE)) /\ CountsAndAsks(exit_list_shards)
    /\ CountsAndAsks(async_drop_series) /\ CountsAndAsks(async_drop_shards)
  BY DEF CountsAndAsks, Asks, AskCallBacks, AskWays, CallBacks,
     exit_set_log_level, Forward, Node, enter_tag_series, enter_untag_series,
     exit_count_pools, Counted, Async, exit_count_series,
     exit_count_series_length, exit_count_servers, exit_count_servers_received,
     exit_count_servers_selected, exit_count_shards, exit_count_shards_size,
     exit_count_groups, exit_count_tags, exit_list_tags, exit_list_pools,
     Listed, async_list_series, exit_list_servers, exit_list_shards,
     async_drop_series, async_drop_shards

(* All servers are known here, and a select counts before it asks.         *)
LEMMA OtherHandlers ==
    /\ Here(exit_count_servers(FALSE)) /\ exit_count_servers(FALSE).count = "all"
    /\ Here(exit_list_servers(FALSE)) /\ exit_list_servers(FALSE).count = "rows"
    /\ Here(async_select_aggregate) /\ async_select_aggregate.count = "self"
    /\ AsksOnly(exit_select_stmt(FALSE)) /\ AsksOnly(exit_select_stmt(TRUE))
  BY DEF Here, AsksOnly, Asks, AskCallBacks, AskWays, CallBacks,
     exit_count_servers, Counted, Forward, Node, Async, exit_list_servers,
     Listed, async_select_aggregate, exit_select_stmt

(* One handler that adds no counts.                                        *)
LEMMA PlainOne ==
    \A a :
        Plain(a)
        => PlainStmt(<<a>>)
<1> TAKE a
<1> DEFINE S == <<a>>
<1> HAVE Plain(a)
<1>1. Len(S) = 1 /\ S[1] = a
  OBVIOUS
<1> HIDE DEF S
<1>2. PlainStmt(S)
  BY <1>1 DEF PlainStmt
<1> QED BY <1>2 DEF S

(* Two handlers that add no counts.                                        *)
LEMMA PlainTwo ==
    \A a, b :
        Plain(a) /\ Plain(b)
        => PlainStmt(<<a, b>>)
<1> TAKE a, b
<1> DEFINE S == <<a, b>>
<1> HAVE Plain(a) /\ Plain(b)
<1>1. Len(S) = 2 /\ S[1] = a /\ S[2] = b
  OBVIOUS
<1> HIDE DEF S
<1>2. PlainStmt(S)
  BY <1>1 DEF PlainStmt
<1> QED BY <1>2 DEF S

(* Three handlers that add no counts.                                      *)
LEMMA PlainThree ==
    \A a, b, c :
        Plain(a) /\ Plain(b) /\ Plain(c)
        => PlainStmt(<<a, b, c>>)
<1> TAKE a, b, c
<1> DEFINE S == <<a, b, c>>
<1> HAVE Plain(a) /\ Plain(b) /\ Plain(c)
<1>1. Len(S) = 3 /\ S[1] = a /\ S[2] = b /\ S[3] = c
  OBVIOUS
<1> HIDE DEF S
<1>2. PlainStmt(S)
  BY <1>1 DEF PlainStmt
<1> QED BY <1>2 DEF S

(* Four handlers that add no counts.                                       *)
LEMMA PlainFour ==
    \A a, b, c, d :
        Plain(a) /\ Plain(b) /\ Plain(c) /\ Plain(d)
        => PlainStmt(<<a, b, c, d>>)
<1> TAKE a, b, c, d
<1> DEFINE S == <<a, b, c, d>>
<1> HAVE Plain(a) /\ Plain(b) /\ Plain(c) /\ Plain(d)
<1>1. Len(S) = 4 /\ S[1] = a /\ S[2] = b /\ S[3] = c /\ S[4] = d
  OBVIOUS
<1> HIDE DEF S
<1>2. PlainStmt(S)
  BY <1>1 DEF PlainStmt
<1> QED BY <1>2 DEF S

(* Five handlers that add no counts.                                       *)
LEMMA PlainFive ==
    \A a, b, c, d, e :
        Plain(a) /\ Plain(b) /\ Plain(c) /\ Plain(d) /\ Plain(e)
        => PlainStmt(<<a, b, c, d, e>>)
<1> TAKE a, b, c, d, e
<1> DEFINE S == <<a, b, c, d, e>>
<1> HAVE Plain(a) /\ Plain(b) /\ Plain(c) /\ Plain(d) /\ Plain(e)
<1>1. Len(S) = 5 /\ S[1] = a /\ S[2] = b /\ S[3] = c /\ S[4] = d /\ S[5] = e
  OBVIOUS
<1> HIDE DEF S
<1>2. PlainStmt(S)
  BY <1>1 DEF PlainStmt
<1> QED BY <1>2 DEF S

(* Two handlers of which the last one counts and asks.                     *)
LEMMA AskTwo ==
    \A a, b :
        Idle(a) /\ CountsAndAsks(b)
        => AskStmt(<<a, b>>, 2, 2)
<1> TAKE a, b
<1> DEFINE S == <<a, b>>
<1> HAVE Idle(a) /\ CountsAndAsks(b)
<1>1. Len(S) = 2 /\ S[1] = a /\ S[2] = b
  OBVIOUS
<1> HIDE DEF S
<1>2. AskStmt(S, 2, 2)
  BY <1>1 DEF AskStmt, CountsAndAsks, Idle, Here
<1> QED BY <1>2 DEF S

(* Three handlers of which the last one counts and asks.                   *)
LEMMA AskThree ==
    \A a, b, c :
        Idle(a) /\ Idle(b) /\ CountsAndAsks(c)
        => AskStmt(<<a, b, c>>, 3, 3)
<1> TAKE a, b, c
<1> DEFINE S == <<a, b, c>>
<1> HAVE Idle(a) /\ Idle(b) /\ CountsAndAsks(c)
<1>1. Len(S) = 3 /\ S[1] = a /\ S[2] = b /\ S[3] = c
  OBVIOUS
<1> HIDE DEF S
<1>2. AskStmt(S, 3, 3)
  BY <1>1 DEF AskStmt, CountsAndAsks, Idle, Here
<1> QED BY <1>2 DEF S

(* Four handlers of which the last one counts and asks.                    *)
LEMMA AskFour ==
    \A a, b, c, d :
        Idle(a) /\ Idle(b) /\ Idle(c) /\ CountsAndAsks(d)
        => AskStmt(<<a, b, c, d>>, 4, 4)
<1> TAKE a, b, c, d
<1> DEFINE S == <<a, b, c, d>>
<1> HAVE Idle(a) /\ Idle(b) /\ Idle(c) /\ CountsAndAsks(d)
<1>1. Len(S) = 4 /\ S[1] = a /\ S[2] = b /\ S[3] = c /\ S[4] = d
  OBVIOUS
<1> HIDE DEF S
<1>2. AskStmt(S, 4, 4)
  BY <1>1 DEF AskStmt, CountsAndAsks, Idle, Here
<1> QED BY <1>2 DEF S

(* Four handlers of which the third one counts and asks.                   *)
LEMMA AskFourth ==
    \A a, b, c, d :
        Idle(a) /\ Idle(b) /\ CountsAndAsks(c) /\ Idle(d)
        => AskStmt(<<a, b, c, d>>, 3, 3)
<1> TAKE a, b, c, d
<1> DEFINE S == <<a, b, c, d>>
<1> HAVE Idle(a) /\ Idle(b) /\ CountsAndAsks(c) /\ Idle(d)
<1>1. Len(S) = 4 /\ S[1] = a /\ S[2] = b /\ S[3] = c /\ S[4] = d
  OBVIOUS
<1> HIDE DEF S
<1>2. AskStmt(S, 3, 3)
  BY <1>1 DEF AskStmt, CountsAndAsks, Idle, Here
<1> QED BY <1>2 DEF S

(* Five handlers of which the fourth one counts and asks.                  *)
LEMMA AskFifth ==
    \A a, b, c, d, e :
        Idle(a) /\ Idle(b) /\ Idle(c) /\ CountsAndAsks(d) /\ Idle(e)
        => AskStmt(<<a, b, c, d, e>>, 4, 4)
<1> TAKE a, b, c, d, e
<1> DEFINE S == <<a, b, c, d, e>>
<1> HAVE Idle(a) /\ Idle(b) /\ Idle(c) /\ CountsAndAsks(d) /\ Idle(e)
<1>1. Len(S) = 5 /\ S[1] = a /\ S[2] = b /\ S[3] = c /\ S[4] = d /\ S[5] = e
  OBVIOUS
<1> HIDE DEF S
<1>2. AskStmt(S, 4, 4)
  BY <1>1 DEF AskStmt, CountsAndAsks, Idle, Here
<1> QED BY <1>2 DEF S

(* Two handlers of which the last one knows all servers.                   *)
LEMMA LocalTwo ==
    \A a, b : Idle(a) /\ Here(b) /\ b.count \in {"all", "rows"} => LocalStmt(<<a, b>>)
<1> TAKE a, b
<1> DEFINE S == <<a, b>>
<1> HAVE Idle(a) /\ Here(b) /\ b.count \in {"all", "rows"}
<1>1. Len(S) = 2 /\ S[1] = a /\ S[2] = b
  OBVIOUS
<1> HIDE DEF S
<1>2. LocalStmt(S)
  BY <1>1 DEF LocalStmt, Idle
<1> QED BY <1>2 DEF S

(* The six handlers of a select: the fifth one counts, the last one asks.  *)
LEMMA AskSix ==
    \A a, b, c, d, e, f :
        /\ Idle(a) /\ Idle(b) /\ Idle(c) /\ Idle(d)
        /\ Here(e) /\ e.count = "self" /\ AsksOnly(f)
        => AskStmt(<<a, b, c, d, e, f>>, 5, 6)
<1> TAKE a, b, c, d, e, f
<1> DEFINE S == <<a, b, c, d, e, f>>
<1> HAVE /\ Idle(a) /\ Idle(b) /\ Idle(c) /\ Idle(d)
         /\ Here(e) /\ e.count = "self" /\ AsksOnly(f)
<1>1. /\ Len(S) = 6 /\ S[1] = a /\ S[2] = b /\ S[3] = c /\ S[4] = d /\ S[5] = e
      /\ S[6] = f
  OBVIOUS
<1> HIDE DEF S
<1>2. AskStmt(S, 5, 6)
  BY <1>1 DEF AskStmt, AsksOnly, Idle, Here
<1> QED BY <1>2 DEF S

(* All of them add no counts.                                              *)
LEMMA IdlePlain ==
    /\ Plain(enter_alter_stmt) /\ Plain(enter_alter_group)
    /\ Plain(enter_set_expression) /\ Plain(enter_set_name) /\ Plain(enter_alter_tag)
    /\ Plain(enter_alter_user) /\ Plain(enter_set_password)
    /\ Plain(enter_alter_server) /\ Plain(exit_set_address) /\ Plain(exit_set_port)
    /\ Plain(enter_alter_servers) /\ Plain(enter_where_xxx)
    /\ Plain(enter_set_ignore_threshold) /\ Plain(enter_alter_series)
    /\ Plain(enter_series_match) /\ Plain(exit_tag_series) /\ Plain(exit_untag_series)
    /\ Plain(enter_count_stmt) /\ Plain(exit_count_pools(FALSE))
    /\ Plain(enter_timeit_stmt) /\ Plain(exit_timeit_stmt) /\ Plain(exit_count_users)
    /\ Plain(exit_count_groups(FALSE)) /\ Plain(finish_count_groups)
    /\ Plain(finish_count_tags) /\ Plain(enter_list_stmt) /\ Plain(enter_limit_expr)
    /\ Plain(exit_list_groups(FALSE)) /\ Plain(finish_list_groups)
    /\ Plain(enter_xxx_columns) /\ Plain(finish_list_tags) /\ Plain(exit_list_series)
    /\ Plain(exit_list_users) /\ Plain(enter_create_stmt) /\ Plain(enter_create_user)
    /\ Plain(NewPassword) /\ Plain(enter_drop_stmt) /\ Plain(exit_drop_series)
    /\ Plain(exit_drop_shards) /\ Plain(enter_access_expr) /\ Plain(enter_grant_user)
    /\ Plain(enter_revoke_user) /\ Plain(enter_select_stmt) /\ Plain(enter_merge_as)
    /\ Plain(exit_between_expr) /\ Plain(exit_after_expr) /\ Plain(exit_before_expr)
    /\ Plain(exit_head_expr) /\ Plain(exit_tail_expr) /\ Plain(exit_show_stmt)
    /\ Plain(enter_help) /\ Plain(exit_help_xxx) /\ Plain(exit_calc_stmt)
<1>1. \A node : Idle(node) => Plain(node)
  BY DEF Idle, Plain, AskCallBacks, CallBacks
<1> QED BY <1>1, IdleHandlers

(* Each statement adds no counts, counts what this server knows, or asks   *)
(* the other servers for their counts.                                     *)
CountKind(S) ==
    \/ PlainStmt(S)
    \/ LocalStmt(S)
    \/ \E c, f \in 1..Len(S) : AskStmt(S, c, f)

(* Every statement is of one of the three kinds.                           *)
LEMMA CountKinds == \A name \in DOMAIN Statement : CountKind(Statement[name])
<1>1. PlainStmt(Statement["alter_group"])
  BY IdlePlain, PlainHandlers, PlainFive DEF Statement
<1>2. PlainStmt(Statement["alter_tag"])
  BY IdlePlain, PlainHandlers, PlainFour DEF Statement
<1>3. PlainStmt(Statement["alter_user"])
  BY IdlePlain, PlainHandlers, PlainFour DEF Statement
<1>4. PlainStmt(Statement["set_address"])
  BY IdlePlain, PlainHandlers, PlainThree DEF Statement
<1>5. PlainStmt(Statement["set_port"])
  BY IdlePlain, PlainHandlers, PlainThree DEF Statement
<1>6. PlainStmt(Statement["backup_mode"])
  BY IdlePlain, PlainHandlers, PlainThree DEF Statement
<1>7. PlainStmt(Statement["log_level"])
  BY IdlePlain, PlainHandlers, PlainThree DEF Statement
<1>8. AskStmt(Statement["log_levels"], 4, 4)
  BY IdleHandlers, AskHandlers, AskFour DEF Statement
<1>9. PlainStmt(Statement["drop_threshold"])
  BY IdlePlain, PlainHandlers, PlainTwo DEF Statement
<1>10. PlainStmt(Statement["tee"])
  BY IdlePlain, PlainHandlers, PlainTwo DEF Statement
<1>11. PlainStmt(Statement["timezone"])
  BY IdlePlain, PlainHandlers, PlainTwo DEF Statement
<1>12. PlainStmt(Statement["expiration"])
  BY IdlePlain, PlainHandlers, PlainThree DEF Statement
<1>13. PlainStmt(Statement["list_limit"])
  BY IdlePlain, PlainHandlers, PlainTwo DEF Statement
<1>14. PlainStmt(Statement["points_limit"])
  BY IdlePlain, PlainHandlers, PlainTwo DEF Statement
<1>15. AskStmt(Statement["tag_series"], 4, 4)
  BY IdleHandlers, AskHandlers, AskFifth DEF Statement
<1>16. AskStmt(Statement["untag_series"], 4, 4)
  BY IdleHandlers, AskHandlers, AskFifth DEF Statement
<1>17. PlainStmt(Statement["count_pools"])
  BY IdlePlain, PlainHandlers, PlainTwo DEF Statement
<1>18. AskStmt(Statement["count_pools_where"], 3, 3)
  BY IdleHandlers, AskHandlers, AskThree DEF Statement
<1>19. AskStmt(Statement["count_series"], 3, 3)
  BY IdleHandlers, AskHandlers, AskThree DEF Statement
<1>20. AskStmt(Statement["count_length"], 2, 2)
  BY IdleHandlers, AskHandlers, AskTwo DEF Statement
<1>21. LocalStmt(Statement["count_servers"])
  BY IdleHandlers, OtherHandlers, LocalTwo DEF Statement
<1>22. AskStmt(Statement["count_servers_remote"], 4, 4)
  BY IdleHandlers, AskHandlers, AskFifth DEF Statement
<1>23. AskStmt(Statement["count_received"], 2, 2)
  BY IdleHandlers, AskHandlers, AskTwo DEF Statement
<1>24. AskStmt(Statement["count_selected"], 2, 2)
  BY IdleHandlers, AskHandlers, AskTwo DEF Statement
<1>25. AskStmt(Statement["count_shards"], 2, 2)
  BY IdleHandlers, AskHandlers, AskTwo DEF Statement
<1>26. AskStmt(Statement["count_size"], 2, 2)
  BY IdleHandlers, AskHandlers, AskTwo DEF Statement
<1>27. PlainStmt(Statement["count_users"])
  BY IdlePlain, PlainHandlers, PlainTwo DEF Statement
<1>28. PlainStmt(Statement["count_groups"])
  BY IdlePlain, PlainHandlers, PlainThree DEF Statement
<1>29. AskStmt(Statement["count_groups_remote"], 3, 3)
  BY IdleHandlers, AskHandlers, AskFourth DEF Statement
<1>30. AskStmt(Statement["count_tags_remote"], 3, 3)
  BY IdleHandlers, AskHandlers, AskFourth DEF Statement
<1>31. PlainStmt(Statement["list_groups"])
  BY IdlePlain, PlainHandlers, PlainFour DEF Statement
<1>32. AskStmt(Statement["list_tags_remote"], 3, 3)
  BY IdleHandlers, AskHandlers, AskFourth DEF Statement
<1>33. AskStmt(Statement["list_pools"], 2, 2)
  BY IdleHandlers, AskHandlers, AskTwo DEF Statement
<1>34. AskStmt(Statement["list_series"], 4, 4)
  BY IdleHandlers, AskHandlers, AskFour DEF Statement
<1>35. LocalStmt(Statement["list_servers"])
  BY IdleHandlers, OtherHandlers, LocalTwo DEF Statement
<1>36. AskStmt(Statement["list_servers_remote"], 3, 3)
  BY IdleHandlers, AskHandlers, AskThree DEF Statement
<1>37. AskStmt(Statement["list_shards"], 2, 2)
  BY IdleHandlers, AskHandlers, AskTwo DEF Statement
<1>38. PlainStmt(Statement["list_users"])
  BY IdlePlain, PlainHandlers, PlainTwo DEF Statement
<1>39. PlainStmt(Statement["create_group"])
  BY IdlePlain, PlainHandlers, PlainTwo DEF Statement
<1>40. PlainStmt(Statement["create_user"])
  BY IdlePlain, PlainHandlers, PlainFour DEF Statement
<1>41. PlainStmt(Statement["drop_group"])
  BY IdlePlain, PlainHandlers, PlainTwo DEF Statement
<1>42. PlainStmt(Statement["drop_tag"])
  BY IdlePlain, PlainHandlers, PlainTwo DEF Statement
<1>43. PlainStmt(Statement["drop_user"])
  BY IdlePlain, PlainHandlers, PlainTwo DEF Statement
<1>44. PlainStmt(Statement["drop_server"])
  BY IdlePlain, PlainHandlers, PlainTwo DEF Statement
<1>45. AskStmt(Statement["drop_series"], 4, 4)
  BY IdleHandlers, AskHandlers, AskFour DEF Statement
<1>46. AskStmt(Statement["drop_shards"], 4, 4)
  BY IdleHandlers, AskHandlers, AskFour DEF Statement
<1>47. PlainStmt(Statement["grant"])
  BY IdlePlain, PlainHandlers, PlainFour DEF Statement
<1>48. PlainStmt(Statement["revoke"])
  BY IdlePlain, PlainHandlers, PlainThree DEF Statement
<1>49. AskStmt(Statement["select"], 5, 6)
  BY IdleHandlers, OtherHandlers, AskSix DEF Statement
<1>50. AskStmt(Statement["select_some"], 5, 6)
  BY IdleHandlers, OtherHandlers, AskSix DEF Statement
<1>51. AskStmt(Statement["select_head"], 5, 6)
  BY IdleHandlers, OtherHandlers, AskSix DEF Statement
<1>52. PlainStmt(Statement["show"])
  BY IdlePlain, PlainHandlers, PlainOne DEF Statement
<1>53. PlainStmt(Statement["help"])
  BY IdlePlain, PlainHandlers, PlainTwo DEF Statement
<1>54. PlainStmt(Statement["calc"])
  BY IdlePlain, PlainHandlers, PlainOne DEF Statement
<1>55. \A S, c, f : AskStmt(S, c, f) => CountKind(S)
  BY DEF AskStmt, CountKind
<1>56. \A S : PlainStmt(S) \/ LocalStmt(S) => CountKind(S)
  BY DEF CountKind
<1> QED
  BY StatementNames, <1>1, <1>2, <1>3, <1>4, <1>5, <1>6, <1>7, <1>8, <1>9,
     <1>10, <1>11, <1>12, <1>13, <1>14, <1>15, <1>16, <1>17, <1>18, <1>19,
     <1>20, <1>21, <1>22, <1>23, <1>24, <1>25, <1>26, <1>27, <1>28, <1>29,
     <1>30, <1>31, <1>32, <1>33, <1>34, <1>35, <1>36, <1>37, <1>38, <1>39,
     <1>40, <1>41, <1>42, <1>43, <1>44, <1>45, <1>46, <1>47, <1>48, <1>49,
     <1>50, <1>51, <1>52, <1>53, <1>54, <1>55, <1>56

(* Whom the statements of CountIsExact and SelectIsComplete ask.           *)
AskedWay(S, way, cb) ==
    \E c, f \in 1..Len(S) :
        AskStmt(S, c, f) /\ S[f].fwd = way /\ S[f].cb = cb

(* One server of each pool, all servers, or nobody.                        *)
LEMMA CountWays ==
    /\ \A name \in {"count_pools_where", "count_series", "count_length"} :
          AskedWay(Statement[name], "pools", "on_count_xxx_response")
    /\ \A name \in {"count_servers_remote", "count_shards", "count_size",
                    "count_received", "count_selected"} :
          AskedWay(Statement[name], "servers", "on_count_xxx_response")
    /\ AskedWay(Statement["log_levels"], "servers", "on_alter_xxx_response")
    /\ \A name \in {"select", "select_head"} :
          AskedWay(Statement[name], "pools", "on_select_response")
    /\ LET S == Statement["count_servers"]
       IN  LocalStmt(S) /\ S[Len(S)].count = "all"
<1>1. \A S, c, f : AskStmt(S, c, f) => AskedWay(S, S[f].fwd, S[f].cb)
  BY DEF AskStmt, AskedWay
<1>2. AskedWay(Statement["count_pools_where"], "pools", "on_count_xxx_response")
  <2> DEFINE S == <<enter_count_stmt, enter_where_xxx, exit_count_pools(TRUE)>>
  <2>1. AskStmt(S, 3, 3)
    BY IdleHandlers, AskHandlers, AskThree
  <2>2. S[3].fwd = "pools" /\ S[3].cb = "on_count_xxx_response"
    BY DEF exit_count_pools, Counted, Forward, Node
  <2>3. Statement["count_pools_where"] = S
    BY DEF Statement
  <2> HIDE DEF S
  <2> QED BY <1>1, <2>1, <2>2, <2>3
<1>3. AskedWay(Statement["count_series"], "pools", "on_count_xxx_response")
  <2> DEFINE S == <<enter_count_stmt, enter_series_match, exit_count_series>>
  <2>1. AskStmt(S, 3, 3)
    BY IdleHandlers, AskHandlers, AskThree
  <2>2. S[3].fwd = "pools" /\ S[3].cb = "on_count_xxx_response"
    BY DEF exit_count_series, Counted, Forward, Node
  <2>3. Statement["count_series"] = S
    BY DEF Statement
  <2> HIDE DEF S
  <2> QED BY <1>1, <2>1, <2>2, <2>3
<1>4. AskedWay(Statement["count_length"], "pools", "on_count_xxx_response")
  <2> DEFINE S == <<enter_count_stmt, exit_count_series_length>>
  <2>1. AskStmt(S, 2, 2)
    BY IdleHandlers, AskHandlers, AskTwo
  <2>2. S[2].fwd = "pools" /\ S[2].cb = "on_count_xxx_response"
    BY DEF exit_count_series_length, Counted, Forward, Node
  <2>3. Statement["count_length"] = S
    BY DEF Statement
  <2> HIDE DEF S
  <2> QED BY <1>1, <2>1, <2>2, <2>3
<1>5. AskedWay(Statement["count_servers_remote"], "servers", "on_count_xxx_response")
  <2> DEFINE S == <<enter_timeit_stmt, enter_count_stmt, enter_where_xxx,
                    exit_count_servers(TRUE), exit_timeit_stmt>>
  <2>1. AskStmt(S, 4, 4)
    BY IdleHandlers, AskHandlers, AskFifth
  <2>2. S[4].fwd = "servers" /\ S[4].cb = "on_count_xxx_response"
    BY DEF exit_count_servers, Counted, Forward, Node
  <2>3. Statement["count_servers_remote"] = S
    BY DEF Statement
  <2> HIDE DEF S
  <2> QED BY <1>1, <2>1, <2>2, <2>3
<1>6. ASSUME NEW name, NEW node, CountsAndAsks(node), node.fwd = "servers",
             node.cb = "on_count_xxx_response", Statement[name] = <<enter_count_stmt, node>>
      PROVE  AskedWay(Statement[name], "servers", "on_count_xxx_response")
  <2> DEFINE S == <<enter_count_stmt, node>>
  <2>1. AskStmt(S, 2, 2)
    BY <1>6, IdleHandlers, AskTwo
  <2>2. S[2] = node
    OBVIOUS
  <2>3. Statement[name] = S
    BY <1>6
  <2> HIDE DEF S
  <2> QED BY <1>1, <1>6, <2>1, <2>2, <2>3
<1>7. /\ exit_count_shards.fwd = "servers" /\ exit_count_shards.cb = "on_count_xxx_response"
      /\ exit_count_shards_size.fwd = "servers"
      /\ exit_count_shards_size.cb = "on_count_xxx_response"
      /\ exit_count_servers_received.fwd = "servers"
      /\ exit_count_servers_received.cb = "on_count_xxx_response"
      /\ exit_count_servers_selected.fwd = "servers"
      /\ exit_count_servers_selected.cb = "on_count_xxx_response"
  BY DEF exit_count_shards, exit_count_shards_size, exit_count_servers_received,
     exit_count_servers_selected, Counted, Forward, Node
<1>8. AskedWay(Statement["count_shards"], "servers", "on_count_xxx_response")
  <2>1. Statement["count_shards"] = <<enter_count_stmt, exit_count_shards>>
    BY DEF Statement
  <2> QED BY <1>6, <1>7, <2>1, AskHandlers
<1>9. AskedWay(Statement["count_size"], "servers", "on_count_xxx_response")
  <2>1. Statement["count_size"] = <<enter_count_stmt, exit_count_shards_size>>
    BY DEF Statement
  <2> QED BY <1>6, <1>7, <2>1, AskHandlers
<1>10. AskedWay(Statement["count_received"], "servers", "on_count_xxx_response")
  <2>1. Statement["count_received"] = <<enter_count_stmt, exit_count_servers_received>>
    BY DEF Statement
  <2> QED BY <1>6, <1>7, <2>1, AskHandlers
<1>11. AskedWay(Statement["count_selected"], "servers", "on_count_xxx_response")
  <2>1. Statement["count_selected"] = <<enter_count_stmt, exit_count_servers_selected>>
    BY DEF Statement
  <2> QED BY <1>6, <1>7, <2>1, AskHandlers
<1>12. AskedWay(Statement["log_levels"], "servers", "on_alter_xxx_response")
  <2> DEFINE S == <<enter_alter_stmt, enter_alter_servers, enter_where_xxx,
                    exit_set_log_level>>
  <2>1. AskStmt(S, 4, 4)
    BY IdleHandlers, AskHandlers, AskFour
  <2>2. S[4].fwd = "servers" /\ S[4].cb = "on_alter_xxx_response"
    BY DEF exit_set_log_level, Forward, Node
  <2>3. Statement["log_levels"] = S
    BY DEF Statement
  <2> HIDE DEF S
  <2> QED BY <1>1, <2>1, <2>2, <2>3
<1>13. /\ exit_select_stmt(FALSE).fwd = "pools"
       /\ exit_select_stmt(FALSE).cb = "on_select_response"
  BY DEF exit_select_stmt, Forward, Node
<1>14. AskedWay(Statement["select"], "pools", "on_select_response")
  <2> DEFINE S == <<enter_select_stmt, enter_series_match, enter_merge_as,
                    exit_between_expr, async_select_aggregate, exit_select_stmt(FALSE)>>
  <2>1. AskStmt(S, 5, 6)
    BY IdleHandlers, OtherHandlers, AskSix
  <2>2. S[6] = exit_select_stmt(FALSE)
    OBVIOUS
  <2>3. Statement["select"] = S
    BY DEF Statement
  <2> HIDE DEF S
  <2> QED BY <1>1, <1>13, <2>1, <2>2, <2>3
<1>15. AskedWay(Statement["select_head"], "pools", "on_select_response")
  <2> DEFINE S == <<enter_select_stmt, enter_series_match, exit_head_expr,
                    exit_tail_expr, async_select_aggregate, exit_select_stmt(FALSE)>>
  <2>1. AskStmt(S, 5, 6)
    BY IdleHandlers, OtherHandlers, AskSix
  <2>2. S[6] = exit_select_stmt(FALSE)
    OBVIOUS
  <2>3. Statement["select_head"] = S
    BY DEF Statement
  <2> HIDE DEF S
  <2> QED BY <1>1, <1>13, <2>1, <2>2, <2>3
<1>16. LET S == Statement["count_servers"] IN LocalStmt(S) /\ S[Len(S)].count = "all"
  <2> DEFINE S == <<enter_count_stmt, exit_count_servers(FALSE)>>
  <2>1. LocalStmt(S)
    BY IdleHandlers, OtherHandlers, LocalTwo
  <2>2. Len(S) = 2 /\ S[2] = exit_count_servers(FALSE)
    OBVIOUS
  <2>3. Statement["count_servers"] = S
    BY DEF Statement
  <2> HIDE DEF S
  <2> QED BY <2>1, <2>2, <2>3, OtherHandlers
<1> QED BY <1>2, <1>3, <1>4, <1>5, <1>8, <1>9, <1>10, <1>11, <1>12, <1>14, <1>15, <1>16

(* A statement is of one kind, with one handler that counts and one that   *)
(* asks.                                                                   *)
LEMMA KindsApart ==
    ASSUME NEW S
    PROVE  /\ PlainStmt(S) => ~LocalStmt(S) /\ \A c, f : ~AskStmt(S, c, f)
           /\ LocalStmt(S) => \A c, f : ~AskStmt(S, c, f)
           /\ \A c, f, d, g : AskStmt(S, c, f) /\ AskStmt(S, d, g) => c = d /\ f = g
<1>1. ASSUME LocalStmt(S) PROVE Len(S) \in 1..Len(S) /\ S[Len(S)].count # "none"
  BY <1>1 DEF LocalStmt
<1>2. ASSUME NEW c, NEW f, AskStmt(S, c, f)
      PROVE  /\ c \in 1..Len(S) /\ f \in 1..Len(S)
             /\ S[c].count # "none" /\ S[f].go = "forward"
  BY <1>2 DEF AskStmt, Asks
<1>3. PlainStmt(S) => ~LocalStmt(S) /\ \A c, f : ~AskStmt(S, c, f)
  BY <1>1, <1>2 DEF PlainStmt, Plain
<1>4. LocalStmt(S) => \A c, f : ~AskStmt(S, c, f)
  BY <1>2 DEF LocalStmt, Here
<1>5. ASSUME NEW c, NEW f, NEW d, NEW g, AskStmt(S, c, f), AskStmt(S, d, g)
      PROVE  c = d /\ f = g
  <2>1. /\ c \in 1..Len(S) /\ f \in 1..Len(S)
        /\ S[c].count # "none" /\ S[f].go = "forward"
    BY <1>2, <1>5
  <2>2. /\ \A k \in 1..Len(S) : k # d => S[k].count = "none"
        /\ \A k \in 1..Len(S) : k # g => Here(S[k])
    BY <1>5 DEF AskStmt
  <2> QED BY <2>1, <2>2 DEF Here
<1> QED BY <1>3, <1>4, <1>5

-----------------------------------------------------------------------------
(* The invariant.                                                          *)

Ok(t) == t.ans = <<"ok">>
Marked(n) == {s \in Servers : n[s] = 1}
Base(t) == t.n \in [Servers -> 0..1] /\ t.limit \in 0..ListLimit

(* A server on its own counts itself, once, with the handler c.            *)
LimitIs(S, c, s, t) ==
    t.limit = IF S[c].count = "row" THEN ListLimit - t.n[s] ELSE ListLimit
Own(S, c, s, t) ==
    /\ \A y \in Servers : y # s => t.n[y] = 0
    /\ LimitIs(S, c, s, t)
    /\ t.st \in {"none", "parse"} => t.n[s] = 0
    /\ t.st = "node" => t.n[s] = IF t.pc > c THEN 1 ELSE 0
    /\ t.st = "wait" \/ Ok(t) => t.n[s] = 1

(* Whom the master has asked with the handler node: one server of a pool,  *)
(* or all, and never its own pool or itself.  tk is the query on all       *)
(* servers.                                                                *)
Reached(node, m, t, tk) ==
    /\ t.nulls \in Nat
    /\ DOMAIN t.prom \subseteq Servers \ {m}
    /\ \A x \in DOMAIN t.prom : t.prom[x] = "ok" => Ok(tk[x])
    /\ node.fwd = "servers" /\ t.nulls = 0 => DOMAIN t.prom = Servers \ {m}
    /\ node.fwd # "servers" => \A x \in DOMAIN t.prom, p \in PoolSet :
          x \in p => m \notin p /\ \A y \in DOMAIN t.prom \cap p : y = x
    /\ node.fwd \notin {"servers", "some_pools"} /\ t.nulls = 0 =>
          \A p \in PoolSet : m \in p \/ \E x \in p : x \in DOMAIN t.prom

(* The master has its own part and those of the servers that answered, or  *)
(* the list is full.                                                       *)
Complete(S, c, f, m, t, tk) ==
    /\ t.n[m] = 1
    /\ S[c].count = "row" => Cardinality(Marked(t.n)) + t.limit = ListLimit
    /\ \/ S[c].count = "row" /\ t.limit = 0
       \/ Reached(S[f], m, t, tk) /\ Marked(t.n) = {m} \cup Oks(t)
    /\ S[f].cb = "on_select_response" => t.nulls = 0 /\ Oks(t) = DOMAIN t.prom

Began(t) == t.st \in {"none", "parse"}
AskOther(S, c, s, t) ==
    /\ t.st \notin {"wait", "work"}
    /\ Began(t) \/ t.st = "node" \/ Ok(t) => Own(S, c, s, t)
AskMaster(S, c, f, m, t, tk) ==
    /\ Began(t) \/ (t.st = "node" /\ t.pc <= f) \/ t.st = "wait" => Own(S, c, m, t)
    /\ t.st = "wait" => /\ t.pc = f /\ Reached(S[f], m, t, tk)
                        /\ S[c].count = "row" => t.limit > 0
    /\ t.st = "work" => t.pc = f
    /\ t.st = "work" \/ (t.st = "node" /\ t.pc > f) \/ Ok(t) => Complete(S, c, f, m, t, tk)
AskOK(S, c, f, m, s, t, tk) ==
    IF s = m THEN AskMaster(S, c, f, m, t, tk) ELSE AskOther(S, c, s, t)

(* A statement that asks nobody has its numbers with the last handler.     *)
LocalOK(S, t) ==
    /\ t.st \notin {"wait", "work"}
    /\ Began(t) \/ t.st = "node" => t.n = Zero /\ t.limit = ListLimit
    /\ Ok(t) /\ S[Len(S)].count = "all" => Marked(t.n) = Servers
    /\ Ok(t) /\ S[Len(S)].count = "rows" =>
          /\ Cardinality(Marked(t.n)) + t.limit = ListLimit
          /\ t.limit = 0 \/ Marked(t.n) = Servers

CountOK(S, m, s, t, tk) ==
    /\ Base(t)
    /\ LocalStmt(S) => LocalOK(S, t)
    /\ \A c, f \in 1..Len(S) : AskStmt(S, c, f) => AskOK(S, c, f, m, s, t, tk)

CountInv ==
    \A q \in Queries, s \in Servers :
        IF qry[q].name = "none" THEN Base(task[q][s])
        ELSE CountOK(Nodes(q), Masters[q], s, task[q][s], task[q])

-----------------------------------------------------------------------------
(* What the operators on a query do to the numbers.                        *)

(* There is a finite number of servers.                                    *)
LEMMA ServersFinite == IsFiniteSet(Servers)
<1>1. IsFiniteSet(PoolSet) /\ \A p \in PoolSet : IsFiniteSet(p)
  BY QueryAssumption
<1> QED BY <1>1, FS_UNION DEF Servers

SameNumbers(t, u) == u.n = t.n /\ u.limit = t.limit /\ SameAsk(t, u)

(* The next handler, or the answer, has the same numbers.                  *)
LEMMA NextParts ==
    ASSUME NEW q, NEW t, DOMAIN t = TaskFields, t.ans = <<>>
    PROVE  LET u == NextNode(q, t)
           IN  /\ SameNumbers(t, u)
               /\ t.pc = Len(Nodes(q)) => u.st = "done" /\ Ok(u)
               /\ t.pc # Len(Nodes(q)) => u.st = "node" /\ u.pc = t.pc + 1 /\ u.ans = <<>>
<1>1. CASE t.pc = Len(Nodes(q))
  <2>1. NextNode(q, t) = Answer(t, "ok")
    BY <1>1 DEF NextNode, siridb_send_query_result
  <2>2. LET u == Answer(t, "ok") IN SameNumbers(t, u) /\ u.st = "done" /\ Ok(u)
    BY OneAnswer DEF Answer, SameNumbers, SameAsk, TaskFields, Ok
  <2> QED BY <1>1, <2>1, <2>2
<1>2. CASE t.pc # Len(Nodes(q))
  <2>1. NextNode(q, t) = [t EXCEPT !.st = "node", !.pc = t.pc + 1]
    BY <1>2 DEF NextNode
  <2> QED BY <1>2, <2>1 DEF SameNumbers, SameAsk, TaskFields
<1> QED BY <1>1, <1>2

(* So has an error.                                                        *)
LEMMA ErrorParts ==
    ASSUME NEW t, DOMAIN t = TaskFields, t.ans = <<>>
    PROVE  LET u == siridb_query_send_error(t)
           IN  SameNumbers(t, u) /\ u.st = "done" /\ ~Ok(u)
<1>1. LET u == siridb_query_send_error(t)
      IN  SameNumbers(t, u) /\ u.st = "done" /\ u.ans = <<"error">>
  BY OneAnswer DEF siridb_query_send_error, Answer, SameNumbers, SameAsk, TaskFields
<1> QED BY <1>1, NotOk DEF Ok

(* What was found complete stays so with the same numbers.                 *)
LEMMA CompleteSame ==
    ASSUME NEW S, NEW c, NEW f, NEW m, NEW t, NEW u, NEW tk, SameNumbers(t, u)
    PROVE  /\ Base(t) => Base(u)
           /\ Reached(S[f], m, t, tk) => Reached(S[f], m, u, tk)
           /\ Complete(S, c, f, m, t, tk) => Complete(S, c, f, m, u, tk)
<1>1. u.n = t.n /\ u.limit = t.limit /\ u.prom = t.prom /\ u.nulls = t.nulls
  BY DEF SameNumbers, SameAsk
<1>2. Oks(u) = Oks(t) /\ Marked(u.n) = Marked(t.n)
  BY <1>1 DEF Oks, Marked
<1>3. Base(t) => Base(u)
  BY <1>1 DEF Base
<1>4. Reached(S[f], m, t, tk) => Reached(S[f], m, u, tk)
  BY <1>1 DEF Reached
<1> QED BY <1>1, <1>2, <1>3, <1>4 DEF Complete

(* An error says nothing of the numbers.                                   *)
LEMMA FailedOK ==
    ASSUME NEW S, NEW c, NEW f, NEW m, NEW s, NEW t, NEW tk,
           t.st \in {"done", "lost"}, ~Ok(t)
    PROVE  LocalOK(S, t) /\ AskOK(S, c, f, m, s, t, tk)
  BY DEF LocalOK, AskOK, AskMaster, AskOther, Began

(* The parts of the servers in X are added to those of t: each server in X *)
(* has counted itself.                                                     *)
SelfOnly(x, t) == \A y \in Servers : t.n[y] = IF y = x THEN 1 ELSE 0
LEMMA PlusIs ==
    ASSUME NEW q, NEW t, DOMAIN t = TaskFields, t.n \in [Servers -> 0..1],
           NEW X \in SUBSET Servers, \A x \in X : t.n[x] = 0 /\ SelfOnly(x, task[q][x])
    PROVE  LET u == Plus(q, t, X)
           IN  /\ u.n = [y \in Servers |-> IF y \in X THEN 1 ELSE t.n[y]]
               /\ u.limit = t.limit /\ SameAsk(t, u)
<1> DEFINE part(y) == [x \in X |-> task[q][x].n[y]]
           sum(y) == SumFunctionOnSet(part(y), X)
           N == [y \in Servers |-> t.n[y] + sum(y)]
<1>1. Plus(q, t, X) = [t EXCEPT !.n = N]
  BY DEF Plus
<1>2. ASSUME NEW y \in Servers PROVE sum(y) = IF y \in X THEN 1 ELSE 0
  <2> DEFINE g == part(y)
  <2>1. \A x \in X : g[x] = IF y = x THEN 1 ELSE 0
    BY DEF SelfOnly
  <2>2. IsFiniteSet(X)
    BY ServersFinite, FS_Subset
  <2> HIDE DEF g
  <2>3. \A x \in X : g[x] \in 0..1
    BY <2>1
  <2>4. SumFunctionOnSet(g, X) = Cardinality(Ones(g, X))
    BY <2>2, <2>3, SumOnSet
  <2>5. Ones(g, X) = IF y \in X THEN {y} ELSE {}
    BY <2>1 DEF Ones
  <2>6. Cardinality({y}) = 1 /\ Cardinality({}) = 0
    BY FS_Singleton, FS_EmptySet
  <2> QED BY <2>4, <2>5, <2>6 DEF g
<1> HIDE DEF sum
<1>3. N = [y \in Servers |-> IF y \in X THEN 1 ELSE t.n[y]]
  <2>1. ASSUME NEW y \in Servers PROVE t.n[y] + sum(y) = IF y \in X THEN 1 ELSE t.n[y]
    <3>1. t.n[y] \in 0..1
      OBVIOUS
    <3> QED BY <1>2, <3>1
  <2> QED BY <2>1
<1> HIDE DEF N
<1> QED BY <1>1, <1>3 DEF SameAsk, TaskFields

(* Of the rows of the servers in X those in R are taken, as many as there  *)
(* is room for.                                                            *)
LEMMA PlusRowsAre ==
    ASSUME NEW q, NEW t, DOMAIN t = TaskFields, t.n \in [Servers -> 0..1], t.limit \in Nat,
           NEW X \in SUBSET Servers, \A x \in X : t.n[x] = 0 /\ SelfOnly(x, task[q][x]),
           NEW u \in PlusRows(q, t, X)
    PROVE  \E R \in SUBSET X :
              /\ u.n = [y \in Servers |-> IF y \in R THEN 1 ELSE t.n[y]]
              /\ Cardinality(R) \in Nat /\ Cardinality(R) <= t.limit
              /\ u.limit = t.limit - Cardinality(R) /\ (u.limit = 0 \/ R = X)
              /\ SameAsk(t, u)
<1> DEFINE rows == {y \in Servers : Plus(q, t, X).n[y] > t.n[y]}
           size == IF Cardinality(rows) < t.limit THEN Cardinality(rows) ELSE t.limit
<1>1. rows = X
  <2>1. Plus(q, t, X).n = [y \in Servers |-> IF y \in X THEN 1 ELSE t.n[y]]
    BY PlusIs
  <2>2. ASSUME NEW y \in Servers PROVE Plus(q, t, X).n[y] > t.n[y] <=> y \in X
    <3>1. t.n[y] \in 0..1 /\ (y \in X => t.n[y] = 0)
      OBVIOUS
    <3>2. Plus(q, t, X).n[y] = IF y \in X THEN 1 ELSE t.n[y]
      BY <2>1
    <3> QED BY <3>1, <3>2
  <2> QED BY <2>2
<1>2. PICK R \in SUBSET rows :
        /\ Cardinality(R) = size
        /\ u = [t EXCEPT !.n = [y \in Servers |-> IF y \in R THEN t.n[y] + 1 ELSE t.n[y]],
                         !.limit = t.limit - Cardinality(R)]
  BY Zenon DEF PlusRows
<1> HIDE DEF rows
<1>3. R \in SUBSET X /\ IsFiniteSet(X) /\ IsFiniteSet(R)
  BY <1>1, <1>2, ServersFinite, FS_Subset
<1>4. Cardinality(X) \in Nat /\ Cardinality(R) \in Nat
  BY <1>3, FS_CardinalityType
<1>5. Cardinality(R) <= t.limit /\ (t.limit - Cardinality(R) = 0 \/ Cardinality(R) = Cardinality(X))
  BY <1>1, <1>2, <1>4
<1>6. Cardinality(R) = Cardinality(X) => R = X
  BY <1>3, FS_Subset
<1> DEFINE N == [y \in Servers |-> IF y \in R THEN t.n[y] + 1 ELSE t.n[y]]
<1>7. N = [y \in Servers |-> IF y \in R THEN 1 ELSE t.n[y]]
  <2>1. ASSUME NEW y \in Servers
        PROVE  (IF y \in R THEN t.n[y] + 1 ELSE t.n[y]) = IF y \in R THEN 1 ELSE t.n[y]
    BY <1>3
  <2> QED BY <2>1
<1>8. u = [t EXCEPT !.n = N, !.limit = t.limit - Cardinality(R)]
  BY <1>2
<1> HIDE DEF N
<1>9. u.n = N /\ u.limit = t.limit - Cardinality(R) /\ SameAsk(t, u)
  BY <1>8 DEF SameAsk, TaskFields
<1> QED BY <1>3, <1>4, <1>5, <1>6, <1>7, <1>9

-----------------------------------------------------------------------------
(* The promises of a statement that asks for counts.                       *)

(* The master has counted itself and asked the others.                     *)
Ready(S, c, f, m, t, tk) ==
    /\ t.pc = f /\ Base(t) /\ SelfOnly(m, t) /\ LimitIs(S, c, m, t)
    /\ S[c].count = "row" => t.limit > 0
    /\ Reached(S[f], m, t, tk)

(* A server that answered with success has counted itself.                 *)
PartsOK(m, tk) == \A x \in Servers \ {m} : Ok(tk[x]) => SelfOnly(x, tk[x])

(* The servers whose parts are added to those of the master.               *)
LEMMA OksParts ==
    ASSUME NEW S, NEW c, NEW f, NEW m \in Servers, NEW t, NEW tk,
           Ready(S, c, f, m, t, tk), PartsOK(m, tk)
    PROVE  /\ Oks(t) \in SUBSET (Servers \ {m})
           /\ \A x \in Oks(t) : t.n[x] = 0 /\ SelfOnly(x, tk[x])
<1>1. Oks(t) \subseteq DOMAIN t.prom /\ \A x \in Oks(t) : t.prom[x] = "ok"
  BY DEF Oks
<1>2. Oks(t) \in SUBSET (Servers \ {m}) /\ \A x \in Oks(t) : Ok(tk[x])
  BY <1>1 DEF Ready, Reached
<1> QED BY <1>2 DEF Ready, PartsOK, SelfOnly

(* With all parts added the master is complete.                            *)
LEMMA PlusComplete ==
    ASSUME NEW S, NEW c, NEW f, NEW m \in Servers, NEW t, NEW u, NEW tk,
           Ready(S, c, f, m, t, tk), S[c].count # "row",
           Oks(t) \in SUBSET (Servers \ {m}),
           u.n = [y \in Servers |-> IF y \in Oks(t) THEN 1 ELSE t.n[y]],
           u.limit = t.limit, SameAsk(t, u),
           S[f].cb = "on_select_response" => t.nulls = 0 /\ Oks(t) = DOMAIN t.prom
    PROVE  Base(u) /\ Complete(S, c, f, m, u, tk)
<1>1. u.prom = t.prom /\ u.nulls = t.nulls
  BY DEF SameAsk
<1>2. Oks(u) = Oks(t)
  BY <1>1 DEF Oks
<1>3. Reached(S[f], m, u, tk)
  BY <1>1 DEF Ready, Reached
<1>4. \A y \in Servers : u.n[y] = IF y \in Oks(t) \/ y = m THEN 1 ELSE 0
  BY DEF Ready, SelfOnly
<1>5. u.n \in [Servers -> 0..1]
  BY <1>4
<1>6. Marked(u.n) = {m} \cup Oks(t) /\ u.n[m] = 1
  BY <1>4 DEF Marked
<1>7. Base(u)
  BY <1>5 DEF Base, Ready
<1> QED BY <1>1, <1>2, <1>3, <1>6, <1>7 DEF Complete

(* So it is with the rows that are taken: all, or the list is full.        *)
LEMMA RowsComplete ==
    ASSUME NEW S, NEW c, NEW f, NEW m \in Servers, NEW t, NEW u, NEW tk,
           Ready(S, c, f, m, t, tk), S[c].count = "row", S[f].cb # "on_select_response",
           Oks(t) \in SUBSET (Servers \ {m}), NEW R \in SUBSET Oks(t),
           u.n = [y \in Servers |-> IF y \in R THEN 1 ELSE t.n[y]],
           Cardinality(R) \in Nat, Cardinality(R) <= t.limit,
           u.limit = t.limit - Cardinality(R), u.limit = 0 \/ R = Oks(t), SameAsk(t, u)
    PROVE  Base(u) /\ Complete(S, c, f, m, u, tk)
<1>1. u.prom = t.prom /\ u.nulls = t.nulls
  BY DEF SameAsk
<1>2. Oks(u) = Oks(t)
  BY <1>1 DEF Oks
<1>3. Reached(S[f], m, u, tk)
  BY <1>1 DEF Ready, Reached
<1>4. \A y \in Servers : u.n[y] = IF y \in R \/ y = m THEN 1 ELSE 0
  BY DEF Ready, SelfOnly
<1>5. u.n \in [Servers -> 0..1]
  BY <1>4
<1>6. Marked(u.n) = R \cup {m} /\ u.n[m] = 1 /\ m \notin R
  BY <1>4 DEF Marked
<1>7. t.limit = ListLimit - 1 /\ ListLimit \in Nat
  BY QueryAssumption DEF Ready, LimitIs, SelfOnly
<1>8. IsFiniteSet(R)
  BY ServersFinite, FS_Subset
<1>9. Cardinality(Marked(u.n)) = Cardinality(R) + 1
  BY <1>6, <1>8, FS_AddElement
<1>10. Base(u) /\ Cardinality(Marked(u.n)) + u.limit = ListLimit
  BY <1>5, <1>7, <1>9 DEF Base
<1>11. u.limit = 0 \/ Marked(u.n) = {m} \cup Oks(u)
  BY <1>2, <1>6
<1> QED BY <1>3, <1>6, <1>10, <1>11 DEF Complete

(* After the call-back the master is through, or goes on, with complete    *)
(* numbers.                                                                *)
LEMMA CompleteNext ==
    ASSUME NEW q, NEW c, NEW f, NEW m, NEW t, NEW tk, AskStmt(Nodes(q), c, f),
           DOMAIN t = TaskFields, t.ans = <<>>, t.pc \in f..Len(Nodes(q)), Base(t),
           Complete(Nodes(q), c, f, m, t, tk)
    PROVE  /\ Base(NextNode(q, t))
           /\ AskMaster(Nodes(q), c, f, m, NextNode(q, t), tk)
<1> DEFINE u == NextNode(q, t)
           S == Nodes(q)
<1>1. /\ SameNumbers(t, u)
      /\ t.pc = Len(S) => u.st = "done" /\ Ok(u)
      /\ t.pc # Len(S) => u.st = "node" /\ u.pc = t.pc + 1 /\ u.ans = <<>>
  BY NextParts
<1>2. f \in Nat /\ Len(S) \in Nat
  BY DEF AskStmt
<1> HIDE DEF u, S
<1>3. Base(u) /\ Complete(S, c, f, m, u, tk)
  BY <1>1, CompleteSame DEF S
<1>4. u.st \in {"done", "node"} /\ (u.st = "node" => ~(u.pc <= f))
  BY <1>1, <1>2 DEF S
<1>5. AskMaster(S, c, f, m, u, tk)
  BY <1>3, <1>4 DEF AskMaster, Began
<1> QED BY <1>3, <1>5 DEF u, S

(* Every call-back that adds counts.                                       *)
LEMMA AskCallback ==
    ASSUME NEW q, NEW c, NEW f, NEW m \in Servers, NEW t, AskStmt(Nodes(q), c, f),
           Bound(q, t), Ready(Nodes(q), c, f, m, t, task[q]), PartsOK(m, task[q]),
           NEW u \in Callback(q, t)
    PROVE  Base(u) /\ AskMaster(Nodes(q), c, f, m, u, task[q])
<1> DEFINE S == Nodes(q)
           tk == task[q]
           X == Oks(t)
           v == OnPromises(t)
<1>1. /\ S[f].cb \in AskCallBacks /\ t.pc = f /\ Len(S) \in Nat /\ f \in 1..Len(S)
      /\ S[c].count \in {"self", "row"}
      /\ S[c].count = "row" <=> S[f].cb = "on_list_xxx_response"
  BY DEF AskStmt, Asks, Ready
<1>2. /\ SameNumbers(t, v) /\ DOMAIN v = TaskFields /\ v.pc = f /\ v.ans = <<>>
  BY <1>1 DEF Bound, OnPromises, SameNumbers, SameAsk, TaskFields
<1>3. X \in SUBSET (Servers \ {m}) /\ \A x \in X : t.n[x] = 0 /\ SelfOnly(x, tk[x])
  BY OksParts
<1> HIDE DEF v
<1>4. /\ v.n = t.n /\ v.limit = t.limit /\ v.n \in [Servers -> 0..1] /\ v.limit \in Nat
      /\ v.prom = t.prom /\ v.nulls = t.nulls
  BY <1>2, QueryAssumption DEF SameNumbers, SameAsk, Ready, Base
<1>5. LET e == siridb_query_send_error(v) IN Base(e) /\ AskMaster(S, c, f, m, e, tk)
  <2> DEFINE e == siridb_query_send_error(v)
  <2>1. SameNumbers(v, e) /\ e.st = "done" /\ ~Ok(e)
    BY <1>2, ErrorParts
  <2> HIDE DEF e
  <2>2. Base(v)
    BY <1>2, CompleteSame DEF Ready
  <2>3. Base(e)
    BY <2>1, <2>2, CompleteSame
  <2>4. AskOK(S, c, f, m, m, e, tk)
    BY <2>1, FailedOK
  <2> QED BY <2>3, <2>4 DEF AskOK, e
<1>6. CASE S[f].cb = "on_list_xxx_response"
  <2>1. S[c].count = "row" /\ u \in on_list_xxx_response(q, t)
    BY <1>1, <1>6 DEF Callback
  <2>2. CASE Errors(t) # {}
    <3>1. u = siridb_query_send_error(v)
      BY <2>1, <2>2 DEF on_list_xxx_response, v
    <3> QED BY <1>5, <3>1
  <2>3. CASE Errors(t) = {}
    <3>1. PICK w \in PlusRows(q, v, X) : u = NextNode(q, w)
      BY <2>1, <2>3 DEF on_list_xxx_response, v
    <3>2. Like(v, w)
      BY <1>2, PlusRowsLike
    <3>3. X \in SUBSET Servers /\ \A x \in X : v.n[x] = 0 /\ SelfOnly(x, task[q][x])
      BY <1>3, <1>4
    <3>4. PICK R \in SUBSET X :
              /\ w.n = [y \in Servers |-> IF y \in R THEN 1 ELSE v.n[y]]
              /\ Cardinality(R) \in Nat /\ Cardinality(R) <= v.limit
              /\ w.limit = v.limit - Cardinality(R) /\ (w.limit = 0 \/ R = X)
              /\ SameAsk(v, w)
      BY <1>2, <1>4, <3>1, <3>3, PlusRowsAre
    <3>5. SameAsk(t, w)
      BY <1>4, <3>4 DEF SameAsk
    <3>6. Base(w) /\ Complete(S, c, f, m, w, tk)
      <4>1. S[f].cb # "on_select_response"
        BY <1>6
      <4> HIDE DEF S, tk
      <4>2. Ready(S, c, f, m, t, tk)
        BY DEF S, tk
      <4>3. /\ w.n = [y \in Servers |-> IF y \in R THEN 1 ELSE t.n[y]]
            /\ Cardinality(R) \in Nat /\ Cardinality(R) <= t.limit
            /\ w.limit = t.limit - Cardinality(R) /\ (w.limit = 0 \/ R = X)
        BY <1>4, <3>4
      <4>4. S[c].count = "row" /\ X \in SUBSET (Servers \ {m})
        BY <1>3, <2>1
      <4> HIDE DEF v
      <4> QED BY <3>5, <4>1, <4>2, <4>3, <4>4, RowsComplete
    <3>7. DOMAIN w = TaskFields /\ w.ans = <<>> /\ w.pc \in f..Len(S)
      BY <1>1, <1>2, <3>2 DEF Like
    <3> QED BY <3>1, <3>6, <3>7, CompleteNext
  <2> QED BY <2>2, <2>3
<1>7. CASE S[f].cb # "on_list_xxx_response"
  <2> DEFINE w == Plus(q, v, X)
  <2>1. Like(v, w)
    BY <1>2, PlusLike
  <2>2. X \in SUBSET Servers /\ \A x \in X : v.n[x] = 0 /\ SelfOnly(x, task[q][x])
    BY <1>3, <1>4
  <2>3. /\ w.n = [y \in Servers |-> IF y \in X THEN 1 ELSE v.n[y]]
        /\ w.limit = v.limit /\ SameAsk(v, w)
    BY <1>2, <1>4, <2>2, PlusIs
  <2>4. \/ u = siridb_query_send_error(v)
        \/ u = NextNode(q, w) /\ S[f].cb # "on_select_response"
        \/ u = Work(w) /\ ~(t.nulls > 0) /\ X = DOMAIN t.prom
    BY <1>1, <1>7 DEF Callback, AskCallBacks, CallBacks, on_count_xxx_response,
       on_select_response, on_drop_series_response, on_drop_shards_response,
       on_tag_response, on_alter_xxx_response, on_groups_response, on_tags_response, v
  <2> HIDE DEF w
  <2>5. /\ SameAsk(t, w) /\ w.limit = t.limit
        /\ w.n = [y \in Servers |-> IF y \in X THEN 1 ELSE t.n[y]]
    BY <1>4, <2>3 DEF SameAsk
  <2>6. DOMAIN w = TaskFields /\ w.ans = <<>> /\ w.pc = f
    BY <1>2, <2>1 DEF Like
  <2>7. ASSUME S[f].cb = "on_select_response" => t.nulls = 0 /\ X = DOMAIN t.prom
        PROVE  Base(w) /\ Complete(S, c, f, m, w, tk)
    <3>1. S[c].count # "row" /\ Ready(S, c, f, m, t, tk)
      BY <1>1, <1>7
    <3> HIDE DEF S, tk
    <3> QED BY <1>3, <2>5, <2>7, <3>1, PlusComplete
  <2>8. CASE u = siridb_query_send_error(v)
    BY <1>5, <2>8
  <2>9. CASE u = NextNode(q, w) /\ S[f].cb # "on_select_response"
    <3>1. w.pc \in f..Len(S)
      BY <1>1, <2>6
    <3> QED BY <2>6, <2>7, <2>9, <3>1, CompleteNext
  <2>10. CASE u = Work(w) /\ ~(t.nulls > 0) /\ X = DOMAIN t.prom
    <3>1. t.nulls = 0
      BY <2>10 DEF Ready, Reached
    <3>2. Base(w) /\ Complete(S, c, f, m, w, tk)
      BY <2>7, <2>10, <3>1
    <3>3. SameNumbers(w, u) /\ u.st = "work" /\ u.pc = f
      BY <2>6, <2>10 DEF Work, SameNumbers, SameAsk, TaskFields
    <3>4. Base(u) /\ Complete(S, c, f, m, u, tk)
      BY <3>2, <3>3, CompleteSame
    <3> QED BY <3>3, <3>4 DEF AskMaster, Began
  <2> QED BY <2>4, <2>8, <2>9, <2>10
<1> QED BY <1>6, <1>7

(* SIRINET_PROMISES_CHECK: the master waits for more answers, or the       *)
(* call-back runs.                                                         *)
LEMMA AskCheck ==
    ASSUME NEW q, NEW c, NEW f, NEW m \in Servers, NEW t, AskStmt(Nodes(q), c, f),
           Bound(q, t), Ready(Nodes(q), c, f, m, t, task[q]), PartsOK(m, task[q]),
           NEW u \in SIRINET_PROMISES_CHECK(q, t)
    PROVE  Base(u) /\ AskMaster(Nodes(q), c, f, m, u, task[q])
<1>1. CASE Open(t) = {}
  BY <1>1, AskCallback DEF SIRINET_PROMISES_CHECK
<1>2. CASE Open(t) # {}
  <2>1. u = [t EXCEPT !.st = "wait"]
    BY <1>2 DEF SIRINET_PROMISES_CHECK
  <2>2. SameNumbers(t, u) /\ u.st = "wait" /\ u.pc = t.pc /\ u.ans = <<>>
    BY <2>1 DEF Bound, SameNumbers, SameAsk, TaskFields
  <2>3. ~Ok(u)
    BY <2>2, NotOk DEF Ok
  <2> DEFINE S == Nodes(q)
             tk == task[q]
  <2>4. Ready(S, c, f, m, t, tk)
    OBVIOUS
  <2> HIDE DEF S, tk
  <2>5. Base(u) /\ Reached(S[f], m, u, tk)
    BY <2>2, <2>4, CompleteSame DEF Ready
  <2>6. u.n = t.n /\ u.limit = t.limit
    BY <2>2 DEF SameNumbers
  <2>7. Own(S, c, m, u)
    BY <2>2, <2>3, <2>4, <2>6 DEF Own, Ready, LimitIs, SelfOnly
  <2>8. u.pc = f /\ (S[c].count = "row" => u.limit > 0)
    BY <2>2, <2>4, <2>6 DEF Ready
  <2>9. AskMaster(S, c, f, m, u, tk)
    BY <2>2, <2>3, <2>5, <2>7, <2>8 DEF AskMaster
  <2> QED BY <2>5, <2>9 DEF S, tk
<1> QED BY <1>1, <1>2

(* A set without elements is the one with zero.                            *)
LEMMA NoneLeft ==
    ASSUME NEW N, IsFiniteSet(N)
    PROVE  Cardinality(N) \in Nat /\ (Cardinality(N) = 0 => N = {})
  BY FS_CardinalityType, FS_EmptySet

(* siridb_query_forward asks each server, or one of each pool or of some.  *)
LEMMA AskForward ==
    ASSUME NEW q, NEW m \in Servers, NEW t, DOMAIN t = TaskFields, NEW tk,
           NEW u \in siridb_query_forward(q, m, t), Nodes(q)[t.pc].fwd \in AskWays
    PROVE  Reached(Nodes(q)[t.pc], m, u, tk)
<1> DEFINE node == Nodes(q)[t.pc]
           others == {p \in PoolSet : m \notin p}
<1>1. CASE node.fwd = "servers"
  <2> DEFINE X == {x \in Servers \ {m} : Online(x)}
             N == {x \in Servers \ {m} : ~Online(x)}
  <2>1. u = Sent(t, X, Cardinality(N))
    BY <1>1 DEF siridb_query_forward, siridb_servers_send_pkg
  <2>2. X \subseteq Servers \ {m} /\ (N = {} => X = Servers \ {m}) /\ N \subseteq Servers
    OBVIOUS
  <2> HIDE DEF X, N
  <2>3. u.prom = [x \in X |-> "open"] /\ u.nulls = Cardinality(N)
    BY <2>1 DEF Sent, TaskFields
  <2>4. IsFiniteSet(N)
    BY <2>2, ServersFinite, FS_Subset
  <2>5. u.nulls \in Nat /\ (u.nulls = 0 => X = Servers \ {m})
    BY <2>2, <2>3, <2>4, NoneLeft
  <2>6. DOMAIN u.prom = X /\ \A x \in X : u.prom[x] # "ok"
    BY <2>3
  <2> HIDE DEF node
  <2>7. Reached(node, m, u, tk)
    BY <1>1, <2>2, <2>5, <2>6 DEF Reached
  <2> QED BY <2>7 DEF node
<1>2. CASE node.fwd # "servers"
  <2>1. \E P \in SUBSET others, only \in BOOLEAN :
            /\ u \in siridb_pools_send_pkg(m, t, P, only)
            /\ node.fwd = "some_pools" \/ P = others
    <3>1. CASE node.fwd = "some_pools"
      BY <3>1 DEF siridb_query_forward
    <3>2. CASE node.fwd # "some_pools"
      <4>1. u \in siridb_pools_send_pkg(m, t, others, node.fwd = "update_online")
        BY <1>2, <3>2 DEF siridb_query_forward
      <4> QED BY <4>1
    <3> QED BY <3>1, <3>2
  <2>2. PICK P \in SUBSET others, only \in BOOLEAN :
            /\ u \in siridb_pools_send_pkg(m, t, P, only)
            /\ node.fwd = "some_pools" \/ P = others
    BY <2>1
  <2>3. PICK g \in [P -> Servers \cup {NoServer}] :
          /\ \A p \in P : g[p] \in Candidates(p, only)
          /\ u = Sent(t, {g[p] : p \in P} \ {NoServer},
                      Cardinality({p \in P : g[p] = NoServer}))
    BY <2>2, Zenon DEF siridb_pools_send_pkg
  <2> DEFINE X == {g[p] : p \in P} \ {NoServer}
             N == {p \in P : g[p] = NoServer}
  <2>4. u.prom = [x \in X |-> "open"] /\ u.nulls = Cardinality(N)
    BY <2>3 DEF Sent, TaskFields
  <2>5. \A p \in P : g[p] \in p \/ g[p] = NoServer
    BY <2>3 DEF Candidates
  <2>6. \A p \in P : p \in PoolSet /\ m \notin p
    OBVIOUS
  <2>7. IsFiniteSet(N)
    <3>1. N \subseteq PoolSet
      OBVIOUS
    <3> QED BY <3>1, QueryAssumption, FS_Subset
  <2>8. u.nulls \in Nat /\ (u.nulls = 0 => N = {})
    BY <2>4, <2>7, NoneLeft
  <2>9. ASSUME NEW x \in X PROVE \E p \in P : x = g[p] /\ x \in p /\ x \in Servers \ {m}
    <3>1. PICK p \in P : x = g[p] /\ x # NoServer
      OBVIOUS
    <3>2. x \in p
      BY <2>5, <3>1
    <3>3. x \in Servers /\ x # m
      BY <2>6, <3>2 DEF Servers
    <3> QED BY <3>1, <3>2, <3>3
  <2>10. X \subseteq Servers \ {m}
    BY <2>9
  <2>11. ASSUME NEW x \in X, NEW p \in PoolSet, x \in p
         PROVE  m \notin p /\ \A y \in X \cap p : y = x
    <3>1. \A y \in X \cap p : p \in P /\ y = g[p]
      <4> TAKE y \in X \cap p
      <4>1. PICK r \in P : y = g[r] /\ y \in r
        BY <2>9
      <4>2. r = p
        BY <2>6, <4>1, QueryAssumption
      <4> QED BY <4>1, <4>2
    <3> QED BY <2>6, <2>11, <3>1
  <2>12. ASSUME u.nulls = 0, node.fwd # "some_pools", NEW p \in PoolSet, m \notin p
         PROVE  \E x \in p : x \in X
    <3>1. p \in P /\ g[p] # NoServer
      BY <2>2, <2>8, <2>12
    <3>2. g[p] \in p /\ g[p] \in X
      BY <2>5, <3>1
    <3> QED BY <3>2
  <2>13. DOMAIN u.prom = X /\ \A x \in X : u.prom[x] # "ok"
    BY <2>4
  <2> HIDE DEF X, N, node, others
  <2>14. Reached(node, m, u, tk)
    BY <1>2, <2>8, <2>10, <2>11, <2>12, <2>13 DEF Reached
  <2> QED BY <2>14 DEF node
<1> QED BY <1>1, <1>2

-----------------------------------------------------------------------------
(* How CountOK is kept.                                                    *)

(* Answers that other servers give do no harm.                             *)
LEMMA CountMono ==
    ASSUME NEW S, NEW m, NEW s, NEW t, NEW tk, NEW tk2,
           \A x \in Servers : Ok(tk[x]) => Ok(tk2[x]), CountOK(S, m, s, t, tk)
    PROVE  CountOK(S, m, s, t, tk2)
<1>1. \A node : Reached(node, m, t, tk) => Reached(node, m, t, tk2)
  BY DEF Reached
<1>2. \A c, f : Complete(S, c, f, m, t, tk) => Complete(S, c, f, m, t, tk2)
  BY <1>1 DEF Complete
<1>3. \A c, f : AskMaster(S, c, f, m, t, tk) => AskMaster(S, c, f, m, t, tk2)
  BY <1>1, <1>2 DEF AskMaster
<1>4. \A c, f : AskOK(S, c, f, m, s, t, tk) => AskOK(S, c, f, m, s, t, tk2)
  BY <1>3 DEF AskOK
<1> QED BY <1>4 DEF CountOK

(* A query on a server becomes u.                                          *)
LEMMA CountStep ==
    ASSUME QueryInv, CountInv, NEW q \in Queries, NEW s \in Servers, NEW u, NEW stays,
           Become(q, s, u, stays), UNCHANGED qry, qry[q].name # "none",
           task[q][s].st # "done", CountOK(Nodes(q), Masters[q], s, u, task[q])
    PROVE  CountInv'
<1>1. /\ task'[q][s] = u
      /\ \A r \in Queries, x \in Servers : r # q \/ x # s => task'[r][x] = task[r][x]
      /\ \A r \in Queries : r # q => task'[r] = task[r]
  BY DEF Become, QueryInv, ShapeInv
<1>2. task[q][s].ans = <<>>
  BY DEF QueryInv, TasksInv, TaskInv
<1>3. \A x \in Servers : Ok(task[q][x]) => Ok(task'[q][x])
  BY <1>1, <1>2, NotOk DEF Ok
<1>4. \A r \in Queries : Nodes(r)' = Nodes(r)
  BY DEF Nodes
<1> SUFFICES ASSUME NEW r \in Queries, NEW x \in Servers
             PROVE  IF qry[r].name = "none" THEN Base(task'[r][x])
                    ELSE CountOK(Nodes(r), Masters[r], x, task'[r][x], task'[r])
  BY <1>4 DEF CountInv
<1>5. IF qry[r].name = "none" THEN Base(task[r][x])
      ELSE CountOK(Nodes(r), Masters[r], x, task[r][x], task[r])
  BY DEF CountInv
<1>6. CASE r # q
  BY <1>1, <1>5, <1>6
<1>7. CASE r = q /\ x # s
  <2>1. CountOK(Nodes(q), Masters[q], x, task'[q][x], task[q])
    BY <1>1, <1>5, <1>7
  <2> QED BY <1>3, <1>7, <2>1, CountMono
<1>8. CASE r = q /\ x = s
  <2>1. CountOK(Nodes(q), Masters[q], s, task'[q][s], task[q])
    BY <1>1
  <2> QED BY <1>3, <1>8, <2>1, CountMono
<1> QED BY <1>6, <1>7, <1>8

(* The statements are of three kinds.                                      *)
LEMMA KindOK ==
    ASSUME NEW S, NEW m, NEW s, NEW t, NEW tk, Base(t)
    PROVE  /\ PlainStmt(S) => CountOK(S, m, s, t, tk)
           /\ LocalStmt(S) /\ LocalOK(S, t) => CountOK(S, m, s, t, tk)
           /\ \A c, f : AskStmt(S, c, f) /\ AskOK(S, c, f, m, s, t, tk)
                 => CountOK(S, m, s, t, tk)
  BY KindsApart DEF CountOK

(* So is the statement of a query that was sent.                           *)
LEMMA KindOf ==
    ASSUME QryInv, NEW q \in Queries, qry[q].name # "none"
    PROVE  \/ PlainStmt(Nodes(q)) \/ LocalStmt(Nodes(q))
           \/ \E c, f \in 1..Len(Nodes(q)) : AskStmt(Nodes(q), c, f)
<1>1. qry[q].name \in DOMAIN Statement
  BY DEF QryInv, Names
<1> QED BY <1>1, CountKinds DEF Nodes, CountKind

(* A query that begins has counted nothing.                                *)
LEMMA BeganOK ==
    ASSUME NEW S, NEW m, NEW s \in Servers, NEW t, NEW tk,
           t.n = Zero, t.limit = ListLimit, Began(t), t.ans = <<>>
    PROVE  CountOK(S, m, s, t, tk)
<1>1. \A y \in Servers : t.n[y] = 0
  BY DEF Zero
<1>2. Base(t)
  BY QueryAssumption DEF Base, Zero
<1>3. ~Ok(t)
  BY NotOk DEF Ok
<1>4. LocalOK(S, t)
  BY <1>3 DEF LocalOK, Began
<1>5. ListLimit \in Nat
  BY QueryAssumption
<1>6. ASSUME NEW c, NEW f PROVE AskOK(S, c, f, m, s, t, tk)
  <2>1. Own(S, c, s, t)
    BY <1>1, <1>3, <1>5 DEF Own, LimitIs, Began
  <2> QED BY <1>3, <2>1 DEF AskOK, AskMaster, AskOther, Began
<1> QED BY <1>2, <1>4, <1>6 DEF CountOK

(* A query that has failed answers nothing.                                *)
LEMMA FailedCount ==
    ASSUME NEW S, NEW m, NEW s, NEW t, NEW tk,
           Base(t), t.st \in {"done", "lost"}, ~Ok(t)
    PROVE  CountOK(S, m, s, t, tk)
  BY FailedOK DEF CountOK

(* All servers that answered with success have counted themselves.         *)
LEMMA PartsCounted ==
    ASSUME CountInv, NEW q \in Queries, qry[q].name # "none",
           NEW c, NEW f, AskStmt(Nodes(q), c, f)
    PROVE  PartsOK(Masters[q], task[q])
<1> SUFFICES ASSUME NEW x \in Servers \ {Masters[q]}, Ok(task[q][x])
             PROVE  SelfOnly(x, task[q][x])
  BY DEF PartsOK
<1>1. c \in 1..Len(Nodes(q)) /\ f \in 1..Len(Nodes(q))
  BY DEF AskStmt
<1>2. AskOK(Nodes(q), c, f, Masters[q], x, task[q][x], task[q])
  BY <1>1 DEF CountInv, CountOK
<1>3. Own(Nodes(q), c, x, task[q][x])
  BY <1>2 DEF AskOK, AskOther
<1> QED BY <1>3 DEF Own, SelfOnly

(* What is known of a query that is not new.                               *)
LEMMA CountKnown ==
    ASSUME CountInv, NEW q \in Queries, qry[q].name # "none", NEW s \in Servers
    PROVE  /\ CountOK(Nodes(q), Masters[q], s, task[q][s], task[q])
           /\ Base(task[q][s])
  BY DEF CountInv, CountOK

-----------------------------------------------------------------------------
(* The steps that count nothing.                                           *)

(* QUERY_parse: the first handler, or an error.                            *)
LEMMA QueryParseCount ==
    ASSUME QueryInv, CountInv, NEW q \in Queries, NEW s \in Servers, QUERY_parse(q, s)
    PROVE  CountInv'
<1> DEFINE t == task[q][s]
           first == [t EXCEPT !.st = "node", !.pc = 1]
           S == Nodes(q)
           m == Masters[q]
           tk == task[q]
<1>1. t.st = "parse" /\ UNCHANGED qry
  BY DEF QUERY_parse
<1>2. qry[q].name # "none" /\ TaskInv(q, t)
  BY <1>1, Running
<1>3. DOMAIN t = TaskFields /\ t.ans = <<>>
  BY <1>1, <1>2 DEF TaskInv
<1>4. CountOK(S, m, s, t, tk) /\ Base(t)
  BY <1>2, CountKnown
<1>5. SameNumbers(t, first) /\ first.st = "node" /\ first.pc = 1 /\ first.ans = <<>>
  BY <1>3 DEF SameNumbers, SameAsk, TaskFields
<1>6. \/ Become(q, s, first, FALSE)
      \/ Become(q, s, siridb_query_send_error(t), FALSE)
  BY DEF QUERY_parse
<1>7. CASE Become(q, s, first, FALSE)
  <2> HIDE DEF first, S, m, tk, t
  <2>1. Base(first) /\ first.n = t.n /\ first.limit = t.limit /\ ~Ok(first)
    BY <1>4, <1>5, CompleteSame, NotOk DEF SameNumbers, Ok
  <2>2. LocalStmt(S) => LocalOK(S, first)
    BY <1>1, <1>4, <1>5, <2>1 DEF CountOK, LocalOK, Began
  <2>3. ASSUME NEW c \in 1..Len(S), NEW f \in 1..Len(S), AskStmt(S, c, f)
        PROVE  AskOK(S, c, f, m, s, first, tk)
    <3>1. AskOK(S, c, f, m, s, t, tk)
      BY <1>4, <2>3 DEF CountOK
    <3>2. Own(S, c, s, t)
      BY <1>1, <3>1 DEF AskOK, AskMaster, AskOther, Began
    <3>3. c \in Nat \ {0} /\ f \in Nat \ {0}
      BY <2>3 DEF AskStmt
    <3>4. Own(S, c, s, first)
      BY <1>1, <1>5, <2>1, <3>2, <3>3 DEF Own, LimitIs
    <3> QED BY <1>5, <2>1, <3>3, <3>4 DEF AskOK, AskMaster, AskOther, Began
  <2>4. CountOK(S, m, s, first, tk)
    BY <2>1, <2>2, <2>3 DEF CountOK
  <2>5. t.st # "done"
    BY <1>1
  <2> QED BY <1>1, <1>2, <1>7, <2>4, <2>5, CountStep DEF S, m, tk, t
<1>8. CASE Become(q, s, siridb_query_send_error(t), FALSE)
  <2> DEFINE u == siridb_query_send_error(t)
  <2>1. SameNumbers(t, u) /\ u.st = "done" /\ ~Ok(u)
    BY <1>3, ErrorParts
  <2> HIDE DEF u
  <2>2. CountOK(S, m, s, u, tk)
    BY <1>4, <2>1, CompleteSame, FailedCount
  <2> QED BY <1>1, <1>2, <1>8, <2>2, CountStep DEF u
<1> QED BY <1>6, <1>7, <1>8

(* A handler that fails.                                                   *)
LEMMA NodeFailsCount ==
    ASSUME QueryInv, CountInv, NEW q \in Queries, NEW s \in Servers, NodeFails(q, s)
    PROVE  CountInv'
<1> DEFINE t == task[q][s]
           u == siridb_query_send_error(t)
<1>1. t.st = "node" /\ UNCHANGED qry /\ Become(q, s, u, FALSE)
  BY DEF NodeFails
<1>2. qry[q].name # "none" /\ TaskInv(q, t)
  BY <1>1, Running
<1>3. DOMAIN t = TaskFields /\ t.ans = <<>> /\ Base(t)
  BY <1>1, <1>2, CountKnown DEF TaskInv
<1>4. SameNumbers(t, u) /\ u.st = "done" /\ ~Ok(u)
  BY <1>3, ErrorParts
<1> HIDE DEF u
<1>5. CountOK(Nodes(q), Masters[q], s, u, task[q])
  BY <1>3, <1>4, CompleteSame, FailedCount
<1> QED BY <1>1, <1>2, <1>5, CountStep

(* A change that cannot be written counts nothing.                         *)
LEMMA SaveFailsCount ==
    ASSUME QueryInv, CountInv, NEW q \in Queries, NEW s \in Servers, SaveFails(q, s)
    PROVE  CountInv'
<1> DEFINE t == task[q][s]
           d == Doing(t, Nodes(q)[t.pc])
           u == siridb_query_send_error(d)
<1>1. t.st = "node" /\ UNCHANGED qry /\ Become(q, s, u, FALSE)
  BY DEF SaveFails
<1>2. qry[q].name # "none" /\ TaskInv(q, t)
  BY <1>1, Running
<1>3. DOMAIN t = TaskFields /\ t.ans = <<>> /\ Base(t)
  BY <1>1, <1>2, CountKnown DEF TaskInv
<1>4. DOMAIN d = TaskFields /\ d.ans = <<>> /\ Base(d)
  BY <1>3, DoingOK DEF Base
<1> HIDE DEF d
<1>5. SameNumbers(d, u) /\ u.st = "done" /\ ~Ok(u)
  BY <1>4, ErrorParts
<1> HIDE DEF u
<1>6. CountOK(Nodes(q), Masters[q], s, u, task[q])
  BY <1>4, <1>5, CompleteSame, FailedCount
<1> QED BY <1>1, <1>2, <1>6, CountStep

(* A query that was sent to a server, or to a replica, begins there.       *)
LEMMA RunOK ==
    ASSUME NEW S, NEW m, NEW s \in Servers, NEW tk
    PROVE  CountOK(S, m, s, siridb_query_run(NoTask), tk)
<1> DEFINE t == siridb_query_run(NoTask)
<1>1. t.n = Zero /\ t.limit = ListLimit /\ t.st = "parse" /\ t.ans = <<>>
  BY DEF siridb_query_run, NoTask
<1> HIDE DEF t
<1>2. CountOK(S, m, s, t, tk)
  BY <1>1, BeganOK DEF Began
<1> QED BY <1>2 DEF t

(* The replica begins with the query of the queue.                         *)
LEMMA ReplicateCount ==
    ASSUME QueryInv, CountInv, NEW s \in Servers, Replicate(s)
    PROVE  CountInv'
<1> DEFINE q == Head(fifo[s])
<1>1. fifo[s] \in Seq(Queries) /\ fifo[s] # <<>> /\ UNCHANGED qry
  BY DEF Replicate, QueryInv, QueueInv
<1>2. 1 \in 1..Len(fifo[s]) /\ fifo[s][1] = q /\ q \in Queries
  BY <1>1
<1>3. ~NotQueued(q)
  BY <1>2 DEF NotQueued
<1>4. qry[q].name # "none"
  BY <1>2, <1>3 DEF QueryInv, FreshInv
<1>5. PICK r \in Others(s) :
        Become(q, r, siridb_query_run(NoTask), FALSE) /\ task[q][r].st = "none"
  BY DEF Replicate
<1>6. r \in Servers
  BY <1>5, TwoAtMost
<1> HIDE DEF q
<1> QED BY <1>1, <1>2, <1>4, <1>5, <1>6, RunOK, CountStep

(* A new query is only with its master.                                    *)
LEMMA ClientQueryCount ==
    ASSUME QueryInv, CountInv, NEW q \in Queries, ClientQuery(q)
    PROVE  CountInv'
<1> DEFINE m == Masters[q]
           u == siridb_query_run(NoTask)
<1>1. m \in Servers
  BY MasterType
<1>2. \A s \in Servers : task[q][s] = NoTask
  BY DEF ClientQuery, QueryInv, FreshInv
<1>3. task' = [task EXCEPT ![q][m] = siridb_query_run(task[q][m])]
  BY DEF ClientQuery
<1> HIDE DEF u
<1>4. /\ task'[q][m] = u
      /\ \A x \in Servers : x # m => task'[q][x] = NoTask
      /\ \A r \in Queries : r # q => task'[r] = task[r]
  BY <1>1, <1>2, <1>3 DEF QueryInv, ShapeInv, u
<1>5. \A r \in Queries : r # q => qry'[r] = qry[r]
  BY DEF ClientQuery, QueryInv, QryInv
<1>6. \A r \in Queries : r # q => Nodes(r)' = Nodes(r)
  BY <1>5 DEF Nodes
<1>7. NoTask.n = Zero /\ NoTask.limit = ListLimit /\ NoTask.ans = <<>> /\ Began(NoTask)
  BY DEF NoTask, Began
<1>8. \A S, tk : \A x \in Servers : /\ CountOK(S, m, x, NoTask, tk)
                                    /\ CountOK(S, m, x, u, tk)
  BY <1>7, BeganOK, RunOK DEF u
<1>9. Base(NoTask) /\ Base(u)
  BY <1>1, <1>8 DEF CountOK
<1> SUFFICES ASSUME NEW r \in Queries, NEW x \in Servers
             PROVE  IF qry'[r].name = "none" THEN Base(task'[r][x])
                    ELSE CountOK(Nodes(r)', Masters[r], x, task'[r][x], task'[r])
  BY DEF CountInv
<1>10. CASE r # q
  <2>1. IF qry[r].name = "none" THEN Base(task[r][x])
        ELSE CountOK(Nodes(r), Masters[r], x, task[r][x], task[r])
    BY DEF CountInv
  <2> QED BY <1>4, <1>5, <1>6, <1>10, <2>1
<1>11. CASE r = q
  <2>1. task'[q][x] = u \/ task'[q][x] = NoTask
    BY <1>4
  <2> QED BY <1>8, <1>9, <1>11, <2>1
<1> QED BY <1>10, <1>11

(* A server that stops loses its queries; its answers are given.           *)
LEMMA ChangeCount ==
    ASSUME QueryInv, CountInv, NEW s \in Servers, Change(s)
    PROVE  CountInv'
<1>1. PICK u \in {"accessible", "online", "offline"} :
        IF u = "offline"
        THEN /\ task' = [q \in Queries |-> [task[q] EXCEPT ![s] =
                   IF task[q][s].st \in {"none", "done"} THEN task[q][s]
                   ELSE [task[q][s] EXCEPT !.st = "lost"]]]
             /\ cpu' = [cpu EXCEPT ![s] = 0]
             /\ obj' = [obj EXCEPT ![s] = saved[s]]
        ELSE UNCHANGED <<task, cpu, obj>>
  BY DEF Change
<1>2. UNCHANGED qry
  BY DEF Change
<1>3. \A q \in Queries : Nodes(q)' = Nodes(q)
  BY <1>2 DEF Nodes
<1>4. CASE u # "offline"
  <2>1. task' = task
    BY <1>1, <1>4
  <2> QED BY <1>2, <1>3, <2>1 DEF CountInv
<1>5. CASE u = "offline"
  <2> SUFFICES ASSUME NEW q \in Queries, NEW x \in Servers
               PROVE  IF qry[q].name = "none" THEN Base(task'[q][x])
                      ELSE CountOK(Nodes(q), Masters[q], x, task'[q][x], task'[q])
    BY <1>2, <1>3 DEF CountInv
  <2> DEFINE t == task[q][s]
             lost == [t EXCEPT !.st = "lost"]
  <2>1. DOMAIN t = TaskFields /\ (t.st # "done" => t.ans = <<>>)
    BY DEF QueryInv, TasksInv, TaskInv
  <2>2. t.st # "done" => lost.st = "lost" /\ lost.ans = <<>> /\ lost.n = t.n /\ lost.limit = t.limit
    BY <2>1 DEF TaskFields
  <2>3. task'[q] = [task[q] EXCEPT ![s] =
                       IF t.st \in {"none", "done"} THEN t ELSE lost]
    BY <1>1, <1>5
  <2>4. DOMAIN task[q] = Servers
    BY DEF QueryInv, ShapeInv
  <2>5. IF qry[q].name = "none" THEN Base(task[q][x])
        ELSE CountOK(Nodes(q), Masters[q], x, task[q][x], task[q])
    BY DEF CountInv
  <2> DEFINE t2 == task'[q][x]
             tk2 == task'[q]
  <2> HIDE DEF lost
  <2>6. /\ \A y \in Servers : y # s => task'[q][y] = task[q][y]
        /\ task'[q][s] = IF t.st \in {"none", "done"} THEN t ELSE lost
    BY <2>3, <2>4
  <2>7. \A y \in Servers : Ok(task[q][y]) => Ok(task'[q][y])
    BY <2>1, <2>6, NotOk DEF Ok
  <2>8. CASE x = s /\ t.st \notin {"none", "done"}
    <3>1. /\ task'[q][x] = lost /\ lost.st = "lost" /\ lost.ans = <<>>
          /\ lost.n = t.n /\ lost.limit = t.limit
      BY <2>2, <2>6, <2>8
    <3>2. Base(t)
      BY <2>5, <2>8 DEF CountOK
    <3>3. Base(lost) /\ ~Ok(lost)
      BY <3>1, <3>2, NotOk DEF Base, Ok
    <3> QED BY <3>1, <3>3, FailedCount
  <2>9. CASE ~(x = s /\ t.st \notin {"none", "done"})
    <3>1. task'[q][x] = task[q][x]
      BY <2>6, <2>9
    <3>2. ASSUME qry[q].name # "none"
          PROVE  CountOK(Nodes(q), Masters[q], x, task'[q][x], task'[q])
      <4>1. CountOK(Nodes(q), Masters[q], x, task'[q][x], task[q])
        BY <2>5, <3>1, <3>2
      <4> QED BY <2>7, <4>1, CountMono
    <3> QED BY <2>5, <3>1, <3>2
  <2> QED BY <2>8, <2>9
<1> QED BY <1>4, <1>5

-----------------------------------------------------------------------------
(* Answers.                                                                *)

(* A call-back that counts nothing leaves the numbers alone.               *)
LEMMA PlainCheck ==
    ASSUME NEW q, NEW t, Bound(q, t), Nodes(q)[t.pc].cb \notin AskCallBacks,
           NEW u \in SIRINET_PROMISES_CHECK(q, t)
    PROVE  u.n = t.n /\ u.limit = t.limit
<1> DEFINE v == OnPromises(t)
<1>1. SameNumbers(t, v) /\ DOMAIN v = TaskFields /\ v.ans = <<>>
  BY DEF Bound, OnPromises, SameNumbers, SameAsk, TaskFields
<1> HIDE DEF v
<1>2. CASE Open(t) # {}
  <2>1. u = [t EXCEPT !.st = "wait"]
    BY <1>2 DEF SIRINET_PROMISES_CHECK
  <2> QED BY <2>1 DEF Bound, TaskFields
<1>3. CASE Open(t) = {}
  <2>1. Nodes(q)[t.pc].cb \in {"on_update_xxx_response", "on_ack_response"}
    BY DEF Bound, AskCallBacks
  <2>2. u \in Callback(q, t)
    BY <1>3 DEF SIRINET_PROMISES_CHECK
  <2>3. u \in {siridb_query_send_error(v), NextNode(q, v)}
    BY <2>1, <2>2 DEF Callback, on_update_xxx_response, on_ack_response, v
  <2>4. SameNumbers(v, siridb_query_send_error(v)) /\ SameNumbers(v, NextNode(q, v))
    BY <1>1, ErrorParts, NextParts
  <2> QED BY <1>1, <2>3, <2>4 DEF SameNumbers
<1> QED BY <1>2, <1>3

(* A server that is asked begins with the query, or answers at once with   *)
(* its part.                                                               *)
LEMMA ReceiveCount ==
    ASSUME QueryInv, CountInv, NEW q \in Queries, NEW x \in Servers, Receive(q, x)
    PROVE  CountInv'
<1> DEFINE m == Masters[q]
           S == Nodes(q)
           tm == task[q][m]
           node == S[tm.pc]
<1>1. /\ qry[q].name # "none" /\ tm.st = "wait" /\ task[q][x].st = "none"
      /\ UNCHANGED qry /\ m \in Servers /\ x # m
  BY MasterType DEF Receive, Waiting
<1>2. CountOK(S, m, m, tm, task[q])
  BY <1>1, CountKnown
<1>3. CASE node.fwd = "groups" \/ node.go = "ack"
  <2>1. PICK a \in {"ok", "error"} :
            Become(q, x, [NoTask EXCEPT !.st = "done", !.ans = <<a>>,
                          !.n[x] = IF node.fwd = "groups" THEN 1 ELSE 0], FALSE)
    BY <1>3 DEF Receive
  <2> DEFINE k == IF node.fwd = "groups" THEN 1 ELSE 0
             N == [Zero EXCEPT ![x] = k]
             u == [NoTask EXCEPT !.st = "done", !.ans = <<a>>, !.n = N]
  <2>2. Become(q, x, u, FALSE)
    <3>1. [NoTask EXCEPT !.st = "done", !.ans = <<a>>,
                          !.n[x] = IF node.fwd = "groups" THEN 1 ELSE 0] = u
      BY DEF NoTask
    <3> QED BY <2>1, <3>1
  <2>3. u.st = "done" /\ u.n = N /\ u.limit = ListLimit
    BY DEF NoTask
  <2>4. \A y \in Servers : N[y] = IF y = x THEN k ELSE 0
    BY DEF Zero
  <2>5. N \in [Servers -> 0..1] /\ k \in 0..1 /\ (node.fwd = "groups" => k = 1)
    BY DEF Zero
  <2> HIDE DEF u, N, k
  <2>6. Base(u)
    BY <2>3, <2>5, QueryAssumption DEF Base
  <2> HIDE DEF S, m, tm, node
  <2>7. ~LocalStmt(S)
    BY <1>1, <1>2 DEF CountOK, LocalOK
  <2>8. ASSUME NEW c \in 1..Len(S), NEW f \in 1..Len(S), AskStmt(S, c, f)
        PROVE  AskOK(S, c, f, m, x, u, task[q])
    <3>1. AskOK(S, c, f, m, m, tm, task[q])
      BY <1>2, <2>8 DEF CountOK
    <3>2. tm.pc = f
      BY <1>1, <3>1 DEF AskOK, AskMaster
    <3>3. node.fwd = "groups" /\ S[c].count # "row"
      BY <1>3, <2>8, <3>2 DEF AskStmt, Asks, node
    <3>4. Own(S, c, x, u)
      BY <2>3, <2>4, <2>5, <3>3 DEF Own, LimitIs
    <3> QED BY <1>1, <2>3, <3>4 DEF AskOK, AskOther
  <2>9. CountOK(S, m, x, u, task[q])
    BY <2>6, <2>7, <2>8 DEF CountOK
  <2>10. task[q][x].st # "done"
    BY <1>1
  <2> QED BY <1>1, <2>2, <2>9, <2>10, CountStep DEF S, m
<1>4. CASE ~(node.fwd = "groups" \/ node.go = "ack")
  <2>1. Become(q, x, siridb_query_run(NoTask), FALSE)
    BY <1>4 DEF Receive
  <2> QED BY <1>1, <2>1, RunOK, CountStep
<1> QED BY <1>3, <1>4

(* The answer of a server, or its failure, comes to a master that waits.   *)
LEMMA OnResponseCount ==
    ASSUME QueryInv, CountInv, NEW q \in Queries, NEW x \in Servers, OnResponse(q, x)
    PROVE  CountInv'
<1> DEFINE m == Masters[q]
           t == task[q][m]
           S == Nodes(q)
           tk == task[q]
<1>1. m \in Servers /\ t.st = "wait" /\ x \in DOMAIN t.prom /\ UNCHANGED qry
  BY MasterType DEF OnResponse, Open
<1>2. qry[q].name # "none" /\ TaskInv(q, t)
  BY <1>1, Running
<1>3. DOMAIN t = TaskFields /\ t.ans = <<>> /\ CountOK(S, m, m, t, tk) /\ Base(t)
  BY <1>1, <1>2, CountKnown DEF TaskInv
<1>4. PICK a \in {"fail"} \cup
               (IF task[q][x].st # "done" THEN {}
                ELSE IF task[q][x].ans[1] = "ok" THEN {"ok"} ELSE {"err"}) :
        \E u \in SIRINET_PROMISES_CHECK(q, [t EXCEPT !.prom[x] = a]) :
          Become(q, m, u, StaysAfter(q, t))
  BY Zenon DEF OnResponse
<1> DEFINE v == [t EXCEPT !.prom[x] = a]
<1>5. /\ DOMAIN v = TaskFields /\ v.ans = <<>> /\ v.pc = t.pc
      /\ v.nulls = t.nulls /\ v.ref = t.ref /\ v.n = t.n /\ v.limit = t.limit
      /\ v.prom = [t.prom EXCEPT ![x] = a]
  BY <1>3 DEF TaskFields
<1>6. PICK u \in SIRINET_PROMISES_CHECK(q, v) : Become(q, m, u, StaysAfter(q, t))
  BY <1>4
<1> HIDE DEF v
<1>7. Bound(q, v) /\ v.pc \in 1..Len(S)
  BY <1>1, <1>2, <1>5 DEF Bound, TaskInv
<1>8. a = "ok" => Ok(task[q][x])
  <2> SUFFICES ASSUME a = "ok" PROVE task[q][x].ans = <<"ok">>
    BY DEF Ok
  <2>1. task[q][x].st = "done" /\ task[q][x].ans[1] = "ok"
    BY <1>4
  <2>2. task[q][x].ans \in {<<"ok">>, <<"error">>}
    BY <2>1 DEF QueryInv, TasksInv, TaskInv
  <2> QED BY <2>1, <2>2
<1>9. /\ DOMAIN v.prom = DOMAIN t.prom /\ v.prom[x] = a
      /\ \A y \in DOMAIN t.prom : y # x => v.prom[y] = t.prom[y]
  BY <1>1, <1>5
<1>10. CASE PlainStmt(S)
  <2>1. S[v.pc].cb \notin AskCallBacks
    BY <1>7, <1>10 DEF PlainStmt, Plain
  <2>2. u.n = v.n /\ u.limit = v.limit
    BY <1>6, <1>7, <2>1, PlainCheck
  <2>3. Base(u)
    BY <1>3, <1>5, <2>2 DEF Base
  <2>4. CountOK(S, m, m, u, tk)
    BY <1>10, <2>3, KindOK
  <2> QED BY <1>1, <1>2, <1>6, <2>4, CountStep
<1>11. CASE LocalStmt(S)
  BY <1>1, <1>3, <1>11 DEF CountOK, LocalOK
<1>12. ASSUME NEW c \in 1..Len(S), NEW f \in 1..Len(S), AskStmt(S, c, f) PROVE CountInv'
  <2>1. AskOK(S, c, f, m, m, t, tk)
    BY <1>3, <1>12 DEF CountOK
  <2>2. PartsOK(m, tk)
    BY <1>2, <1>12, PartsCounted
  <2>3. Ready(S, c, f, m, v, tk)
    <3>0. tk[x] = task[q][x]
      OBVIOUS
    <3> HIDE DEF S, m, t, tk
    <3>1. /\ Own(S, c, m, t) /\ t.pc = f /\ Reached(S[f], m, t, tk)
          /\ S[c].count = "row" => t.limit > 0
      BY <1>1, <2>1 DEF AskOK, AskMaster
    <3>2. Reached(S[f], m, v, tk)
      BY <1>5, <1>8, <1>9, <3>0, <3>1 DEF Reached
    <3>3. Base(v)
      BY <1>3, <1>5 DEF Base
    <3>4. SelfOnly(m, v) /\ LimitIs(S, c, m, v)
      BY <1>1, <1>5, <3>1 DEF Own, SelfOnly, LimitIs
    <3> QED BY <1>5, <3>1, <3>2, <3>3, <3>4 DEF Ready
  <2>4. Base(u) /\ AskMaster(S, c, f, m, u, tk)
    BY <1>1, <1>6, <1>7, <1>12, <2>2, <2>3, AskCheck
  <2>5. CountOK(S, m, m, u, tk)
    BY <1>12, <2>4, KindOK DEF AskOK
  <2> QED BY <1>1, <1>2, <1>6, <2>5, CountStep
<1> QED BY <1>2, <1>10, <1>11, <1>12, KindOf DEF QueryInv

(* The points of a select are merged: the master goes on or fails.         *)
LEMMA WorkDoneCount ==
    ASSUME QueryInv, CountInv, NEW q \in Queries, WorkDone(q)
    PROVE  CountInv'
<1> DEFINE m == Masters[q]
           t == task[q][m]
           S == Nodes(q)
           tk == task[q]
           Less(u) == [u EXCEPT !.ref = u.ref - 1]
<1>1. m \in Servers /\ t.st = "work" /\ UNCHANGED qry
  BY MasterType DEF WorkDone
<1>2. qry[q].name # "none" /\ TaskInv(q, t)
  BY <1>1, Running
<1>3. DOMAIN t = TaskFields /\ t.ans = <<>> /\ CountOK(S, m, m, t, tk) /\ Base(t)
  BY <1>1, <1>2, CountKnown DEF TaskInv
<1>4. PICK w \in {NextNode(q, t), siridb_query_send_error(t)} :
        Become(q, m, Less(w), FALSE)
  BY DEF WorkDone
<1>5. DOMAIN w = TaskFields
  BY <1>3, <1>4 DEF NextNode, siridb_send_query_result, siridb_query_send_error,
     Answer, TaskFields
<1> DEFINE u == Less(w)
<1>6. /\ SameNumbers(w, u) /\ u.st = w.st /\ u.pc = w.pc /\ u.ans = w.ans
  BY <1>5 DEF SameNumbers, SameAsk, TaskFields
<1> HIDE DEF u
<1>7. Become(q, m, u, FALSE)
  BY <1>4 DEF u
<1>8. SameNumbers(t, w)
  BY <1>3, <1>4, NextParts, ErrorParts
<1>9. Base(u)
  BY <1>3, <1>6, <1>8 DEF SameNumbers, Base
<1>10. CASE w = siridb_query_send_error(t)
  <2>1. w.st = "done" /\ ~Ok(w)
    BY <1>3, <1>10, ErrorParts
  <2>2. CountOK(S, m, m, u, tk)
    BY <1>6, <1>9, <2>1, FailedCount DEF Ok
  <2> QED BY <1>1, <1>2, <1>7, <2>2, CountStep
<1>11. CASE w = NextNode(q, t)
  <2>1. CASE PlainStmt(S)
    <3>1. CountOK(S, m, m, u, tk)
      BY <1>9, <2>1, KindOK
    <3> QED BY <1>1, <1>2, <1>7, <3>1, CountStep
  <2>2. CASE LocalStmt(S)
    BY <1>1, <1>3, <2>2 DEF CountOK, LocalOK
  <2>3. ASSUME NEW c \in 1..Len(S), NEW f \in 1..Len(S), AskStmt(S, c, f) PROVE CountInv'
    <3>1. AskOK(S, c, f, m, m, t, tk)
      BY <1>3, <2>3 DEF CountOK
    <3>2. t.pc = f /\ Complete(S, c, f, m, t, tk)
      BY <1>1, <3>1 DEF AskOK, AskMaster
    <3>3. t.pc \in f..Len(S)
      BY <2>3, <3>2 DEF AskStmt
    <3>4. AskMaster(S, c, f, m, w, tk)
      BY <1>3, <1>11, <2>3, <3>2, <3>3, CompleteNext
    <3>5. w.st \in {"done", "node"} /\ (w.st = "node" => ~(w.pc <= f))
      <4>1. f \in Nat /\ Len(S) \in Nat
        BY <2>3 DEF AskStmt
      <4> QED BY <1>3, <1>11, <3>2, <4>1, NextParts
    <3>6. Complete(S, c, f, m, w, tk) => Complete(S, c, f, m, u, tk)
      BY <1>6, CompleteSame
    <3> HIDE DEF S, m, t, tk
    <3>7. AskMaster(S, c, f, m, u, tk)
      BY <1>6, <3>4, <3>5, <3>6 DEF AskMaster, Began, Ok
    <3>8. CountOK(S, m, m, u, tk)
      BY <1>9, <2>3, <3>7, KindOK DEF AskOK
    <3> QED BY <1>1, <1>2, <1>7, <3>8, CountStep DEF S, m, t, tk
  <2> QED BY <1>2, <2>1, <2>2, <2>3, KindOf DEF QueryInv
<1> QED BY <1>4, <1>10, <1>11

-----------------------------------------------------------------------------
(* Handlers.                                                               *)

(* After the handler k the server has counted itself, or not yet.          *)
PartIs(c, s, k, t) ==
    \A y \in Servers : t.n[y] = IF y = s /\ c <= k THEN 1 ELSE 0

(* A handler of a statement that asks: the one that counts adds the server *)
(* itself, the others add nothing.                                         *)
LEMMA OwnCount ==
    ASSUME NEW S, NEW c, NEW f, NEW q, NEW s \in Servers, NEW t, AskStmt(S, c, f),
           DOMAIN t = TaskFields, t.pc \in 1..Len(S), t.st = "node", Base(t),
           Own(S, c, s, t), NEW u, u = Count(q, s, t, S[t.pc])
    PROVE  Base(u) /\ LimitIs(S, c, s, u) /\ PartIs(c, s, t.pc, u)
<1> DEFINE N == [t.n EXCEPT ![s] = t.n[s] + 1]
<1>1. /\ t.n \in [Servers -> 0..1] /\ t.limit \in 0..ListLimit /\ ListLimit \in Nat \ {0}
      /\ \A y \in Servers : y # s => t.n[y] = 0
      /\ t.n[s] = IF t.pc > c THEN 1 ELSE 0
      /\ t.limit = IF S[c].count = "row" THEN ListLimit - t.n[s] ELSE ListLimit
  BY QueryAssumption DEF Base, Own, LimitIs
<1>2. c \in 1..Len(S) /\ Len(S) \in Nat
  BY DEF AskStmt
<1>3. CASE t.pc # c
  <2>1. u = t
    BY <1>3 DEF AskStmt, Count
  <2>2. PartIs(c, s, t.pc, t)
    BY <1>1, <1>2, <1>3 DEF PartIs
  <2> QED BY <2>1, <2>2 DEF Own
<1>4. CASE t.pc = c
  <2>1. N \in [Servers -> 0..1] /\ \A y \in Servers : N[y] = IF y = s THEN 1 ELSE 0
    BY <1>1, <1>2, <1>4
  <2>2. c <= t.pc /\ t.n[s] = 0 /\ t.limit = ListLimit
    BY <1>1, <1>2, <1>4
  <2>3. S[c].count \in {"self", "row"}
    BY DEF AskStmt
  <2>4. CASE S[c].count = "self"
    <3>1. u = [t EXCEPT !.n = N]
      BY <1>4, <2>4 DEF Count, TaskFields
    <3>2. u.n = N /\ u.limit = t.limit
      BY <3>1 DEF TaskFields
    <3> HIDE DEF N
    <3>3. Base(u) /\ LimitIs(S, c, s, u)
      BY <1>1, <2>1, <2>2, <2>4, <3>2 DEF Base, LimitIs
    <3>4. PartIs(c, s, t.pc, u)
      BY <2>1, <2>2, <3>2 DEF PartIs
    <3> QED BY <3>3, <3>4
  <2>5. CASE S[c].count = "row"
    <3>1. u = [t EXCEPT !.n = N, !.limit = t.limit - 1]
      BY <1>1, <1>4, <2>2, <2>5 DEF Count, TaskFields
    <3>2. u.n = N /\ u.limit = t.limit - 1
      BY <3>1 DEF TaskFields
    <3> HIDE DEF N
    <3>3. u.n[s] = 1
      BY <2>1, <3>2
    <3>4. Base(u) /\ LimitIs(S, c, s, u)
      BY <1>1, <2>1, <2>2, <2>5, <3>2, <3>3 DEF Base, LimitIs
    <3>5. PartIs(c, s, t.pc, u)
      BY <2>1, <2>2, <3>2 DEF PartIs
    <3> QED BY <3>4, <3>5
  <2> QED BY <2>3, <2>4, <2>5
<1> QED BY <1>3, <1>4

(* Then the next handler runs, or the server answers with its part.        *)
LEMMA OwnNext ==
    ASSUME NEW q, NEW c, NEW f, NEW s \in Servers, NEW t, AskStmt(Nodes(q), c, f),
           DOMAIN t = TaskFields, t.ans = <<>>, t.pc \in 1..Len(Nodes(q)),
           Base(t), LimitIs(Nodes(q), c, s, t),
           PartIs(c, s, t.pc, t)
    PROVE  LET u == NextNode(q, t)
           IN  /\ Base(u) /\ Own(Nodes(q), c, s, u)
               /\ t.pc = Len(Nodes(q)) => u.st = "done"
               /\ t.pc # Len(Nodes(q)) => u.st = "node" /\ u.pc = t.pc + 1 /\ ~Ok(u)
<1> DEFINE u == NextNode(q, t)
           S == Nodes(q)
<1>1. /\ SameNumbers(t, u)
      /\ t.pc = Len(S) => u.st = "done" /\ Ok(u)
      /\ t.pc # Len(S) => u.st = "node" /\ u.pc = t.pc + 1 /\ u.ans = <<>>
  BY NextParts
<1>2. c \in 1..Len(S) /\ Len(S) \in Nat
  BY DEF AskStmt
<1> HIDE DEF u, S
<1>3. u.n = t.n /\ u.limit = t.limit
  BY <1>1 DEF SameNumbers
<1>4. u.ans = <<>> => ~Ok(u)
  BY NotOk DEF Ok
<1>5. t.pc \in 1..Len(S) /\ LimitIs(S, c, s, t)
  BY DEF S
<1>6. Own(S, c, s, u)
  BY <1>1, <1>2, <1>3, <1>4, <1>5 DEF Own, LimitIs, PartIs
<1>7. Base(u)
  BY <1>3 DEF Base
<1> QED BY <1>1, <1>4, <1>6, <1>7 DEF u, S

(* The last handler of a statement that asks nobody.                       *)
LEMMA LocalCount ==
    ASSUME NEW q, NEW s, NEW t, NEW node, DOMAIN t = TaskFields,
           t.n = Zero, t.limit = ListLimit, node.count \in {"all", "rows"},
           NEW u \in IF node.count = "rows" THEN CountRows(q, t, node)
                     ELSE {Count(q, s, t, node)}
    PROVE  /\ Base(u)
           /\ node.count = "all" => Marked(u.n) = Servers
           /\ node.count = "rows" => /\ Cardinality(Marked(u.n)) + u.limit = ListLimit
                                     /\ u.limit = 0 \/ Marked(u.n) = Servers
<1>1. ListLimit \in Nat
  BY QueryAssumption
<1>2. CASE node.count = "all"
  <2> DEFINE N == [x \in Servers |-> 1]
  <2>1. u = [t EXCEPT !.n = N]
    BY <1>2 DEF Count
  <2>2. N \in [Servers -> 0..1] /\ Marked(N) = Servers
    BY DEF Marked
  <2> HIDE DEF N
  <2>3. u.n = N /\ u.limit = ListLimit
    BY <2>1 DEF TaskFields
  <2> QED BY <1>1, <1>2, <2>2, <2>3 DEF Base
<1>3. CASE node.count = "rows"
  <2> DEFINE size == IF Cardinality(Servers) < t.limit THEN Cardinality(Servers) ELSE t.limit
  <2>1. PICK R \in SUBSET Servers :
          /\ Cardinality(R) = size
          /\ u = [t EXCEPT !.n = [x \in Servers |-> IF x \in R THEN 1 ELSE 0],
                           !.limit = t.limit - Cardinality(R)]
    BY <1>3 DEF CountRows
  <2> DEFINE N == [x \in Servers |-> IF x \in R THEN 1 ELSE 0]
  <2>2. N \in [Servers -> 0..1] /\ Marked(N) = R
    BY DEF Marked
  <2>3. u = [t EXCEPT !.n = N, !.limit = t.limit - Cardinality(R)]
    BY <2>1
  <2> HIDE DEF N
  <2>4. u.n = N /\ u.limit = ListLimit - Cardinality(R)
    BY <2>3 DEF TaskFields
  <2>5. IsFiniteSet(R) /\ Cardinality(R) \in Nat /\ Cardinality(Servers) \in Nat
    BY ServersFinite, FS_Subset, FS_CardinalityType
  <2>6. /\ u.limit \in 0..ListLimit /\ Cardinality(R) + u.limit = ListLimit
        /\ u.limit = 0 \/ Cardinality(R) = Cardinality(Servers)
    BY <1>1, <2>1, <2>4, <2>5
  <2>7. Cardinality(R) = Cardinality(Servers) => R = Servers
    BY ServersFinite, FS_Subset
  <2> QED BY <1>3, <2>2, <2>4, <2>6, <2>7 DEF Base
<1> QED BY <1>2, <1>3

(* What a handler does to the query, if it may forward it or not.          *)
Handled(q, s, t, u) ==
    LET node == Nodes(q)[t.pc]
    IN  IF IsMaster(q, s) /\ node.go = "forward" /\ (node.count = "row" => t.limit > 0)
        THEN \E sent \in siridb_query_forward(q, s, t) : u \in SIRINET_PROMISES_CHECK(q, sent)
        ELSE IF node.go = "ack" /\ qry[q].target # s
        THEN u = [Sent(t, {qry[q].target}, 0) EXCEPT !.st = "wait"]
        ELSE u = NextNode(q, t)

(* A handler that goes on here, or runs on a server that is not the        *)
(* master.                                                                 *)
LEMMA HandledNext ==
    ASSUME NEW q, NEW s, NEW t, NEW u, Handled(q, s, t, u), Nodes(q)[t.pc].go # "ack",
           ~IsMaster(q, s) \/ Nodes(q)[t.pc].go # "forward"
    PROVE  u = NextNode(q, t)
  BY DEF Handled

(* A statement that counts nothing keeps its numbers.                      *)
LEMMA PlainHandled ==
    ASSUME NEW q, NEW s, NEW t, DOMAIN t = TaskFields, t.ans = <<>>, t.ref = 1,
           t.pc \in 1..Len(Nodes(q)), WellFormed(Nodes(q)[t.pc]),
           Nodes(q)[t.pc].cb \notin AskCallBacks, NEW u, Handled(q, s, t, u)
    PROVE  u.n = t.n /\ u.limit = t.limit
<1> DEFINE node == Nodes(q)[t.pc]
           fwds == IsMaster(q, s) /\ node.go = "forward" /\ (node.count = "row" => t.limit > 0)
<1>1. CASE fwds
  <2>1. PICK sent \in siridb_query_forward(q, s, t) : u \in SIRINET_PROMISES_CHECK(q, sent)
    BY <1>1 DEF Handled
  <2>2. PICK X, k : sent = Sent(t, X, k)
    BY ForwardSends
  <2>3. /\ DOMAIN sent = TaskFields /\ sent.pc = t.pc /\ sent.ref = 2 /\ sent.ans = <<>>
        /\ sent.n = t.n /\ sent.limit = t.limit
    BY <2>2 DEF Sent, TaskFields
  <2>4. Bound(q, sent)
    BY <1>1, <2>3 DEF Bound, WellFormed
  <2> QED BY <2>1, <2>3, <2>4, PlainCheck
<1>2. CASE ~fwds /\ node.go = "ack" /\ qry[q].target # s
  <2> DEFINE sent == Sent(t, {qry[q].target}, 0)
  <2>1. u = [sent EXCEPT !.st = "wait"]
    BY <1>2 DEF Handled
  <2>2. DOMAIN sent = TaskFields /\ sent.n = t.n /\ sent.limit = t.limit
    BY DEF Sent, TaskFields
  <2> HIDE DEF sent
  <2> QED BY <2>1, <2>2 DEF TaskFields
<1>3. CASE ~fwds /\ ~(node.go = "ack" /\ qry[q].target # s)
  <2>1. u = NextNode(q, t)
    BY <1>3 DEF Handled
  <2> QED BY <2>1, NextParts DEF SameNumbers
<1> QED BY <1>1, <1>2, <1>3

(* The master asks with the handler f, unless the list is full already.    *)
LEMMA AskHandled ==
    ASSUME NEW q \in Queries, NEW c, NEW f, NEW t, NEW u, AskStmt(Nodes(q), c, f),
           DOMAIN t = TaskFields, t.ans = <<>>, t.ref = 1, t.pc = f, Base(t),
           LimitIs(Nodes(q), c, Masters[q], t), SelfOnly(Masters[q], t),
           PartsOK(Masters[q], task[q]), Handled(q, Masters[q], t, u)
    PROVE  Base(u) /\ AskMaster(Nodes(q), c, f, Masters[q], u, task[q])
<1> DEFINE S == Nodes(q)
           m == Masters[q]
           tk == task[q]
<1>1. /\ S[f].go = "forward" /\ S[f].fwd \in AskWays /\ S[f].cb \in AskCallBacks
      /\ f \in 1..Len(S) /\ Len(S) \in Nat
      /\ S[c].count = "row" => c = f /\ S[f].cb = "on_list_xxx_response"
      /\ S[f].count = "row" => c = f
      /\ S[c].count = "row" => S[f].count = "row"
  BY DEF AskStmt, Asks
<1>2. m \in Servers /\ IsMaster(q, m)
  BY MasterType DEF IsMaster
<1>3. CASE S[f].count = "row" => t.limit > 0
  <2>1. PICK sent \in siridb_query_forward(q, m, t) : u \in SIRINET_PROMISES_CHECK(q, sent)
    BY <1>1, <1>2, <1>3 DEF Handled
  <2>2. PICK X, k : sent = Sent(t, X, k)
    BY ForwardSends
  <2>3. /\ DOMAIN sent = TaskFields /\ sent.pc = f /\ sent.ref = 2 /\ sent.ans = <<>>
        /\ sent.n = t.n /\ sent.limit = t.limit
    BY <2>2 DEF Sent, TaskFields
  <2>4. Bound(q, sent)
    BY <1>1, <2>3 DEF Bound, AskCallBacks
  <2>5. Reached(S[f], m, sent, tk)
    BY <1>1, <1>2, AskForward
  <2>6. Ready(S, c, f, m, sent, tk)
    BY <1>1, <1>3, <2>3, <2>5 DEF Ready, Base, SelfOnly, LimitIs
  <2> QED BY <1>2, <2>1, <2>4, <2>6, AskCheck
<1>4. CASE ~(S[f].count = "row" => t.limit > 0)
  <2>1. u = NextNode(q, t)
    BY <1>1, <1>4 DEF Handled
  <2>2. t.limit = 0 /\ S[c].count = "row" /\ S[f].cb # "on_select_response"
    BY <1>1, <1>4, QueryAssumption DEF Base
  <2>3. t.n[m] = 1 /\ Marked(t.n) = {m}
    BY <1>2 DEF SelfOnly, Marked
  <2>4. ListLimit = 1
    BY <2>2, <2>3, QueryAssumption DEF LimitIs
  <2>5. Complete(S, c, f, m, t, tk)
    <3>1. Cardinality({m}) = 1
      BY FS_Singleton
    <3>2. Cardinality(Marked(t.n)) + t.limit = ListLimit
      BY <2>2, <2>3, <2>4, <3>1
    <3> HIDE DEF S, m, tk
    <3> QED BY <2>2, <2>3, <3>2 DEF Complete
  <2>6. t.pc \in f..Len(S)
    BY <1>1
  <2> QED BY <2>1, <2>5, <2>6, CompleteNext
<1> QED BY <1>3, <1>4

(* A handler runs.                                                         *)
LEMMA RunNodeCount ==
    ASSUME QueryInv, CountInv, NEW q \in Queries, NEW s \in Servers, RunNode(q, s)
    PROVE  CountInv'
<1> DEFINE t1 == task[q][s]
           S == Nodes(q)
           m == Masters[q]
           tk == task[q]
           node == S[t1.pc]
           t0 == [t1 EXCEPT !.did = t1.did \/ node.eff # "none"]
           Counts == IF node.count = "rows" THEN CountRows(q, t0, node)
                     ELSE {Count(q, s, t0, node)}
<1>1. t1.st = "node" /\ UNCHANGED qry
  BY DEF RunNode
<1>2. qry[q].name # "none" /\ StatementOK(S) /\ TaskInv(q, t1)
  BY <1>1, Running
<1>3. /\ DOMAIN t1 = TaskFields /\ t1.ref = 1 /\ t1.ans = <<>>
      /\ t1.pc \in 1..Len(S) /\ Len(S) \in Nat
  BY <1>1, <1>2 DEF TaskInv, StatementOK
<1>4. WellFormed(node)
  BY <1>2, <1>3 DEF StatementOK
<1>5. /\ DOMAIN t0 = TaskFields /\ t0.ref = 1 /\ t0.ans = <<>> /\ t0.pc = t1.pc
      /\ t0.st = "node" /\ SameNumbers(t1, t0)
  BY <1>1, <1>3 DEF TaskFields, SameNumbers, SameAsk
<1>6. PICK t \in Counts :
       IF IsMaster(q, s) /\ node.go = "forward" /\ (node.count = "row" => t.limit > 0)
       THEN \E sent \in siridb_query_forward(q, s, t) :
            \E u \in SIRINET_PROMISES_CHECK(q, sent) :
                /\ Become(q, s, u, StaysAfter(q, t))
                /\ fifo' = Replicated(q, s, node)
       ELSE IF node.go = "ack" /\ qry[q].target # s
       THEN /\ Become(q, s, [Sent(t, {qry[q].target}, 0) EXCEPT !.st = "wait"], FALSE)
            /\ UNCHANGED fifo
       ELSE /\ Become(q, s, NextNode(q, t), node.go = "next")
            /\ UNCHANGED fifo
  BY Zenon DEF RunNode, Doing
<1> HIDE DEF t0
<1>7. Like(t0, t)
  BY <1>4, <1>5, CountLike
<1>8. /\ DOMAIN t = TaskFields /\ t.ref = 1 /\ t.ans = <<>> /\ t.pc = t1.pc
      /\ t.st = "node"
  BY <1>5, <1>7 DEF Like
<1>9. PICK u, stays : Become(q, s, u, stays) /\ Handled(q, s, t, u)
  <2> DEFINE fwds == IsMaster(q, s) /\ node.go = "forward" /\ (node.count = "row" => t.limit > 0)
  <2>1. Nodes(q)[t.pc] = node
    BY <1>8
  <2> HIDE DEF node, Counts
  <2>2. CASE fwds
    <3>1. PICK sent \in siridb_query_forward(q, s, t) :
            \E u \in SIRINET_PROMISES_CHECK(q, sent) : Become(q, s, u, StaysAfter(q, t))
      BY <1>6, <2>2
    <3>2. PICK u \in SIRINET_PROMISES_CHECK(q, sent) : Become(q, s, u, StaysAfter(q, t))
      BY <3>1
    <3>3. Handled(q, s, t, u)
      BY <2>1, <2>2, <3>1, <3>2 DEF Handled
    <3> QED BY <3>2, <3>3
  <2>3. CASE ~fwds /\ node.go = "ack" /\ qry[q].target # s
    <3> DEFINE u == [Sent(t, {qry[q].target}, 0) EXCEPT !.st = "wait"]
    <3>1. Become(q, s, u, FALSE)
      BY <1>6, <2>3
    <3>2. Handled(q, s, t, u)
      BY <2>1, <2>3 DEF Handled
    <3> HIDE DEF u
    <3> QED BY <3>1, <3>2
  <2>4. CASE ~fwds /\ ~(node.go = "ack" /\ qry[q].target # s)
    <3> DEFINE u == NextNode(q, t)
    <3>1. Become(q, s, u, node.go = "next")
      BY <1>6, <2>4
    <3>2. Handled(q, s, t, u)
      BY <2>1, <2>4 DEF Handled
    <3> HIDE DEF u
    <3> QED BY <3>1, <3>2
  <2> QED BY <2>2, <2>3, <2>4
<1>10. CountOK(S, m, s, t1, tk) /\ Base(t1)
  BY <1>2, CountKnown
<1>11. Base(t0) /\ t0.n = t1.n /\ t0.limit = t1.limit
  BY <1>5, <1>10, CompleteSame DEF SameNumbers
<1>12. node.count = "none" => t = t0
  BY DEF Count
<1> SUFFICES CountOK(S, m, s, u, tk)
  BY <1>1, <1>2, <1>9, CountStep
<1>13. CASE PlainStmt(S)
  <2>1. node.count = "none" /\ node.cb \notin AskCallBacks
    BY <1>3, <1>13 DEF PlainStmt, Plain
  <2>2. u.n = t.n /\ u.limit = t.limit
    BY <1>3, <1>4, <1>8, <1>9, <2>1, PlainHandled
  <2>3. Base(u)
    BY <1>11, <1>12, <2>1, <2>2 DEF Base
  <2> QED BY <1>13, <2>3, KindOK
<1>14. CASE LocalStmt(S)
  <2>1. t1.n = Zero /\ t1.limit = ListLimit
    BY <1>1, <1>10, <1>14 DEF CountOK, LocalOK
  <2>2. node.go # "forward" /\ node.go # "ack"
    BY <1>3, <1>14 DEF LocalStmt, Here
  <2>3. u = NextNode(q, t)
    BY <1>8, <1>9, <2>2, HandledNext
  <2>4. /\ SameNumbers(t, u)
        /\ t.pc = Len(S) => u.st = "done" /\ Ok(u)
        /\ t.pc # Len(S) => u.st = "node" /\ u.pc = t.pc + 1 /\ u.ans = <<>>
    BY <1>8, <2>3, NextParts
  <2>5. CASE t1.pc = Len(S)
    <3>1. node = S[Len(S)] /\ node.count \in {"all", "rows"}
      BY <1>14, <2>5 DEF LocalStmt
    <3>2. t0.n = Zero /\ t0.limit = ListLimit
      BY <1>11, <2>1
    <3> DEFINE good(w) ==
           /\ Base(w)
           /\ node.count = "all" => Marked(w.n) = Servers
           /\ node.count = "rows" => /\ Cardinality(Marked(w.n)) + w.limit = ListLimit
                                     /\ w.limit = 0 \/ Marked(w.n) = Servers
    <3>3. good(t)
      BY <1>5, <1>6, <3>1, <3>2, LocalCount
    <3>4. good(u)
      BY <2>4, <3>3 DEF SameNumbers, Base
    <3>5. u.st = "done"
      BY <1>8, <2>4, <2>5
    <3>6. LocalOK(S, u)
      BY <3>1, <3>4, <3>5 DEF LocalOK, Began
    <3> QED BY <1>14, <3>4, <3>6, KindOK
  <2>6. CASE t1.pc # Len(S)
    <3>1. t1.pc \in 1..(Len(S) - 1)
      BY <1>3, <2>6
    <3>2. node.count = "none"
      BY <1>14, <3>1 DEF LocalStmt
    <3>3. t = t0
      BY <1>12, <3>2
    <3>4. u.n = Zero /\ u.limit = ListLimit /\ u.st = "node" /\ u.ans = <<>>
      BY <1>8, <1>11, <2>1, <2>4, <2>6, <3>3 DEF SameNumbers
    <3>5. ~Ok(u)
      BY <3>4, NotOk DEF Ok
    <3>6. LocalOK(S, u)
      BY <3>4, <3>5 DEF LocalOK
    <3>7. Base(u)
      BY <1>11, <2>1, <3>4 DEF Base
    <3> QED BY <1>14, <3>6, <3>7, KindOK
  <2> QED BY <2>5, <2>6
<1>15. ASSUME NEW c \in 1..Len(S), NEW f \in 1..Len(S), AskStmt(S, c, f)
       PROVE  CountOK(S, m, s, u, tk)
  <2>1. AskOK(S, c, f, m, s, t1, tk)
    BY <1>10, <1>15 DEF CountOK
  <2>2. c \in Nat /\ f \in Nat /\ c <= f /\ f <= Len(S)
    BY <1>3, <1>15 DEF AskStmt
  <2>3. node.count # "rows" /\ node.go # "ack" /\ (t1.pc # f => node.go # "forward")
    BY <1>3, <1>15 DEF AskStmt, Asks, Here
  <2>4. t = Count(q, s, t0, S[t0.pc])
    BY <1>5, <1>6, <2>3
  <2>5. ASSUME s # m \/ t1.pc <= f
        PROVE  Base(t) /\ LimitIs(S, c, s, t) /\ PartIs(c, s, t.pc, t)
    <3>1. Own(S, c, s, t1)
      BY <1>1, <2>1, <2>5 DEF AskOK, AskMaster, AskOther
    <3>2. ~Ok(t0) /\ ~Ok(t1)
      BY <1>3, <1>5, NotOk DEF Ok
    <3> HIDE DEF S, m, t1, tk, node, Counts
    <3>3. Own(S, c, s, t0)
      BY <1>1, <1>5, <1>11, <3>1, <3>2 DEF Own, LimitIs
    <3>4. t0.pc \in 1..Len(S)
      BY <1>3, <1>5
    <3>5. t.pc = t0.pc
      BY <1>5, <1>8
    <3>6. /\ DOMAIN t0 = TaskFields /\ t0.st = "node" /\ Base(t0) /\ AskStmt(S, c, f)
          /\ t = Count(q, s, t0, S[t0.pc])
      BY <1>5, <1>11, <1>15, <2>4
    <3>7. Base(t) /\ LimitIs(S, c, s, t) /\ PartIs(c, s, t0.pc, t)
      BY <3>3, <3>4, <3>6, OwnCount
    <3> QED BY <3>5, <3>7
  <2>6. ASSUME u = NextNode(q, t), s # m \/ t1.pc <= f
        PROVE  /\ Base(u) /\ Own(S, c, s, u)
               /\ t.pc = Len(S) => u.st = "done"
               /\ t.pc # Len(S) => u.st = "node" /\ u.pc = t.pc + 1 /\ ~Ok(u)
    <3>1. t.pc \in 1..Len(S)
      BY <1>3, <1>8
    <3> QED BY <1>8, <1>15, <2>5, <2>6, <3>1, OwnNext
  <2>7. Base(u) /\ AskOK(S, c, f, m, s, u, tk)
    <3>1. CASE s # m
      <4>1. u = NextNode(q, t)
        <5>1. ~IsMaster(q, s) /\ Nodes(q)[t.pc] = node
          BY <1>8, <3>1 DEF IsMaster
        <5> QED BY <1>9, <2>3, <5>1, HandledNext
      <4>2. Base(u) /\ Own(S, c, s, u) /\ u.st \in {"done", "node"}
        BY <2>6, <3>1, <4>1
      <4> HIDE DEF S, m, t1, tk, node
      <4> QED BY <3>1, <4>2 DEF AskOK, AskOther
    <3>2. CASE s = m /\ t1.pc < f
      <4>1. u = NextNode(q, t)
        <5>1. Nodes(q)[t.pc] = node /\ t1.pc # f
          BY <1>3, <1>8, <2>2, <3>2
        <5> QED BY <1>9, <2>3, <5>1, HandledNext
      <4>2. t1.pc <= f /\ t1.pc # Len(S) /\ t1.pc + 1 <= f
        BY <1>3, <2>2, <3>2
      <4>3. /\ Base(u) /\ Own(S, c, s, u) /\ u.st = "node" /\ u.pc = t1.pc + 1 /\ ~Ok(u)
        BY <1>8, <2>6, <3>2, <4>1, <4>2
      <4>4. u.pc <= f /\ ~(u.pc > f)
        BY <1>3, <2>2, <4>2, <4>3
      <4> HIDE DEF S, m, t1, tk, node
      <4>5. AskMaster(S, c, f, m, u, tk)
        BY <3>2, <4>3, <4>4 DEF AskMaster, Began
      <4> QED BY <3>2, <4>3, <4>5 DEF AskOK
    <3>3. CASE s = m /\ t1.pc = f
      <4>1. Base(t) /\ LimitIs(S, c, s, t) /\ PartIs(c, s, t.pc, t)
        BY <2>2, <2>5, <3>3
      <4>2. SelfOnly(s, t) /\ t.pc = f
        BY <1>8, <2>2, <3>3, <4>1 DEF SelfOnly, PartIs
      <4>3. PartsOK(m, tk)
        BY <1>2, <1>15, PartsCounted
      <4>4. Base(u) /\ AskMaster(S, c, f, m, u, tk)
        BY <1>8, <1>9, <1>15, <3>3, <4>1, <4>2, <4>3, AskHandled
      <4> QED BY <3>3, <4>4 DEF AskOK
    <3>4. CASE s = m /\ t1.pc > f
      <4>1. u = NextNode(q, t)
        <5>1. Nodes(q)[t.pc] = node /\ t1.pc # f
          BY <1>3, <1>8, <2>2, <3>4
        <5> QED BY <1>9, <2>3, <5>1, HandledNext
      <4>2. t1.pc # c /\ t1.pc \in f..Len(S)
        BY <1>3, <2>2, <3>4
      <4>3. node.count = "none"
        BY <1>3, <1>15, <4>2 DEF AskStmt
      <4>4. t = t0
        BY <1>12, <4>3
      <4>5. Complete(S, c, f, m, t1, tk)
        BY <1>1, <2>1, <3>4 DEF AskOK, AskMaster
      <4>6. Complete(S, c, f, m, t, tk)
        BY <1>5, <4>4, <4>5, CompleteSame
      <4>7. Base(t) /\ t.pc \in f..Len(S)
        BY <1>8, <1>11, <4>2, <4>4
      <4>8. Base(u) /\ AskMaster(S, c, f, m, u, tk)
        BY <1>8, <1>15, <4>1, <4>6, <4>7, CompleteNext
      <4> QED BY <3>4, <4>8 DEF AskOK
    <3> QED BY <1>3, <2>2, <3>1, <3>2, <3>3, <3>4
  <2> QED BY <1>15, <2>7, KindOK
<1> QED BY <1>2, <1>13, <1>14, <1>15, KindOf DEF QueryInv

-----------------------------------------------------------------------------
(* The invariant holds.                                                    *)

(* All queries are still with their clients.                               *)
LEMMA CountInit == Init => CountInv
<1> SUFFICES ASSUME Init PROVE CountInv
  OBVIOUS
<1>1. \A q \in Queries : qry[q].name = "none"
  <2> PICK f \in Plans : qry = [q \in Queries |->
           [plan |-> f[q], name |-> "none", denied |-> FALSE, target |-> NoServer]]
    BY DEF Init
  <2> QED OBVIOUS
<1>2. \A q \in Queries, s \in Servers : task[q][s] = NoTask
  BY DEF Init
<1>3. Base(NoTask)
  BY QueryAssumption DEF Base, NoTask, Zero
<1> QED BY <1>1, <1>2, <1>3 DEF CountInv

(* Every step keeps it.                                                    *)
LEMMA CountNext == QueryInv /\ CountInv /\ [Next]_vars => CountInv'
<1> SUFFICES ASSUME QueryInv, CountInv, [Next]_vars PROVE CountInv'
  OBVIOUS
<1>1. CASE UNCHANGED vars \/ \E s \in Servers : SaveTags(s)
  <2>1. UNCHANGED task /\ UNCHANGED qry
    BY <1>1 DEF vars, SaveTags
  <2>2. \A q \in Queries : Nodes(q)' = Nodes(q)
    BY <2>1 DEF Nodes
  <2> QED BY <2>1, <2>2 DEF CountInv
<1>2. ASSUME NEW q \in Queries, ClientQuery(q) PROVE CountInv'
  BY <1>2, ClientQueryCount
<1>3. ASSUME NEW q \in Queries, NEW s \in Servers, Step(q, s) PROVE CountInv'
  BY <1>3, QueryParseCount, NodeFailsCount, SaveFailsCount, RunNodeCount DEF Step
<1>4. ASSUME NEW q \in Queries, NEW x \in Servers, OnResponse(q, x) \/ Receive(q, x)
      PROVE  CountInv'
  BY <1>4, OnResponseCount, ReceiveCount
<1>5. ASSUME NEW q \in Queries, WorkDone(q) PROVE CountInv'
  BY <1>5, WorkDoneCount
<1>6. ASSUME NEW s \in Servers, Replicate(s) \/ Change(s) PROVE CountInv'
  BY <1>6, ReplicateCount, ChangeCount
<1> QED BY <1>1, <1>2, <1>3, <1>4, <1>5, <1>6 DEF Next, Progress

(* The invariant holds in every state.                                     *)
THEOREM CountInvHolds == Spec => [](QueryInv /\ CountInv)
<1>1. Spec => []QueryInv
  BY QueryInvHolds
<1>2. Init => CountInv
  BY CountInit
<1>3. QueryInv /\ CountInv /\ [Next]_vars => CountInv'
  BY CountNext
<1> QED BY <1>1, <1>2, <1>3, PTL DEF Spec

-----------------------------------------------------------------------------
(* What the answers say.                                                   *)

(* The master of a query that asked has a complete answer.                 *)
LEMMA AnswerComplete ==
    ASSUME CountInv, NEW q \in Queries, qry[q].name # "none", Success(q),
           NEW c \in 1..Len(Nodes(q)), NEW f \in 1..Len(Nodes(q)), AskStmt(Nodes(q), c, f)
    PROVE  Complete(Nodes(q), c, f, Masters[q], task[q][Masters[q]], task[q])
<1>1. CountOK(Nodes(q), Masters[q], Masters[q], task[q][Masters[q]], task[q])
  BY MasterType, CountKnown
<1>2. AskOK(Nodes(q), c, f, Masters[q], Masters[q], task[q][Masters[q]], task[q])
  BY <1>1 DEF CountOK
<1>3. Ok(task[q][Masters[q]])
  BY DEF Success, Ok
<1> QED BY <1>2, <1>3 DEF AskOK, AskMaster

(* A query that is answered was sent.                                      *)
LEMMA SuccessSent ==
    ASSUME QueryInv, NEW q \in Queries, Success(q)
    PROVE  qry[q].name # "none" /\ Masters[q] \in Servers
<1>1. Masters[q] \in Servers /\ task[q][Masters[q]].st # "none"
  BY MasterType DEF Success, Answered
<1> QED BY <1>1, Running

(* One server of a pool has counted itself, if one of each pool is asked   *)
(* and all answered.                                                       *)
LEMMA OnePerPool ==
    ASSUME NEW node, NEW m \in Servers, NEW t, NEW tk, NEW p \in PoolSet,
           Reached(node, m, t, tk), node.fwd = "pools", t.nulls = 0,
           Oks(t) = DOMAIN t.prom, Marked(t.n) = {m} \cup Oks(t)
    PROVE  \E x \in p : Marked(t.n) \cap p = {x}
<1>1. \A x \in DOMAIN t.prom, r \in PoolSet :
         x \in r => m \notin r /\ \A y \in DOMAIN t.prom \cap r : y = x
  BY DEF Reached
<1>2. \A r \in PoolSet : m \in r \/ \E x \in r : x \in DOMAIN t.prom
  BY DEF Reached
<1>3. CASE m \in p
  <2>1. Marked(t.n) \cap p = {m}
    BY <1>1, <1>3
  <2> QED BY <1>3, <2>1
<1>4. CASE m \notin p
  <2>1. PICK x \in p : x \in DOMAIN t.prom
    BY <1>2, <1>4
  <2>2. Marked(t.n) \cap p = {x}
    BY <1>1, <1>4, <2>1
  <2> QED BY <2>2
<1> QED BY <1>3, <1>4

(* Then the sum over the pool is one.                                      *)
LEMMA PoolSum ==
    ASSUME NEW n \in [Servers -> 0..1], NEW p \in PoolSet,
           \E x \in p : Marked(n) \cap p = {x}
    PROVE  MapThenSumSet(LAMBDA s : n[s], p) = 1 /\ \E s \in p : n[s] = 1
<1>1. PICK x \in p : Marked(n) \cap p = {x}
  OBVIOUS
<1>2. IsFiniteSet(p) /\ p \subseteq Servers
  BY QueryAssumption DEF Servers
<1>3. \A y \in p : n[y] \in 0..1
  BY <1>2
<1>4. Ones(n, p) = {x}
  BY <1>1, <1>2 DEF Ones, Marked
<1>5. Cardinality({x}) = 1
  BY FS_Singleton
<1>6. MapThenSumSet(LAMBDA s : n[s], p) = 1
  BY <1>2, <1>3, <1>4, <1>5, SumMapped
<1>7. n[x] = 1
  BY <1>1 DEF Marked
<1> QED BY <1>6, <1>7

(* No server is counted twice.                                             *)
LEMMA OnceCounted == ASSUME CountInv PROVE CountedOnce
  BY DEF CountInv, CountOK, Base, CountedOnce

(* A count has one server of each pool, or all servers.                    *)
LEMMA CountsExact == ASSUME QueryInv, CountInv PROVE CountIsExact
<1> SUFFICES ASSUME NEW q \in Queries, Success(q), AllAnswered(q)
             PROVE  LET n == task[q][Masters[q]].n  names == {qry[q].name} IN
        /\ names \subseteq {"count_pools_where", "count_series", "count_length"} =>
               \A p \in PoolSet : MapThenSumSet(LAMBDA s : n[s], p) = 1
        /\ names \subseteq {"count_servers", "count_servers_remote", "count_shards",
                            "count_size", "count_received", "count_selected", "log_levels"} =>
               \A s \in Servers : n[s] = 1
  BY DEF CountIsExact
<1> DEFINE m == Masters[q]
           t == task[q][m]
           S == Nodes(q)
           tk == task[q]
           name == qry[q].name
<1>1. name # "none" /\ m \in Servers
  BY SuccessSent
<1>2. t.nulls = 0 /\ Oks(t) = DOMAIN t.prom
  BY DEF AllAnswered
<1>3. Base(t) /\ CountOK(S, m, m, t, tk)
  BY <1>1, CountKnown
<1>4. Ok(t) /\ S = Statement[name]
  BY DEF Success, Ok, Nodes
<1>5. ASSUME NEW way, NEW cb, AskedWay(S, way, cb), cb # "on_list_xxx_response"
      PROVE  \E f \in 1..Len(S) : /\ S[f].fwd = way /\ Reached(S[f], m, t, tk)
                                  /\ Marked(t.n) = {m} \cup Oks(t)
  <2>1. PICK c \in 1..Len(S), f \in 1..Len(S) :
          AskStmt(S, c, f) /\ S[f].fwd = way /\ S[f].cb = cb
    BY <1>5 DEF AskedWay
  <2>2. Complete(S, c, f, m, t, tk)
    BY <1>1, <2>1, AnswerComplete
  <2>3. S[c].count # "row"
    BY <1>5, <2>1 DEF AskStmt
  <2>4. Reached(S[f], m, t, tk) /\ Marked(t.n) = {m} \cup Oks(t)
    BY <2>2, <2>3 DEF Complete
  <2> QED BY <2>1, <2>4
<1>6. ASSUME name \in {"count_pools_where", "count_series", "count_length"}
      PROVE  \A p \in PoolSet : MapThenSumSet(LAMBDA s : t.n[s], p) = 1
  <2> TAKE p \in PoolSet
  <2>1. AskedWay(S, "pools", "on_count_xxx_response")
    BY <1>4, <1>6, CountWays
  <2>2. PICK f \in 1..Len(S) : /\ S[f].fwd = "pools" /\ Reached(S[f], m, t, tk)
                               /\ Marked(t.n) = {m} \cup Oks(t)
    BY <1>5, <2>1
  <2>3. \E x \in p : Marked(t.n) \cap p = {x}
    BY <1>1, <1>2, <2>2, OnePerPool
  <2> DEFINE n == t.n
  <2>4. n \in [Servers -> 0..1] /\ \E x \in p : Marked(n) \cap p = {x}
    BY <1>3, <2>3 DEF Base
  <2> HIDE DEF n
  <2>5. MapThenSumSet(LAMBDA s : n[s], p) = 1
    BY <2>4, PoolSum
  <2> QED BY <2>5 DEF n
<1>7. ASSUME name \in {"count_servers", "count_servers_remote", "count_shards",
                       "count_size", "count_received", "count_selected", "log_levels"}
      PROVE  Marked(t.n) = Servers
  <2>1. CASE name = "count_servers"
    <3>1. LocalStmt(S) /\ S[Len(S)].count = "all"
      BY <1>4, <2>1, CountWays
    <3> QED BY <1>3, <1>4, <3>1 DEF CountOK, LocalOK
  <2>2. CASE name # "count_servers"
    <3>1. \/ AskedWay(S, "servers", "on_count_xxx_response")
          \/ AskedWay(S, "servers", "on_alter_xxx_response")
      BY <1>4, <1>7, <2>2, CountWays
    <3>2. PICK f \in 1..Len(S) : /\ S[f].fwd = "servers" /\ Reached(S[f], m, t, tk)
                                 /\ Marked(t.n) = {m} \cup Oks(t)
      BY <1>5, <3>1
    <3>3. DOMAIN t.prom = Servers \ {m}
      BY <1>2, <3>2 DEF Reached
    <3> QED BY <1>1, <1>2, <3>2, <3>3
  <2> QED BY <2>1, <2>2
<1>8. Marked(t.n) = Servers => \A s \in Servers : t.n[s] = 1
  BY DEF Marked
<1> QED BY <1>6, <1>7, <1>8

(* The length of a list is the number of servers that are in it.           *)
LEMMA ListLength ==
    ASSUME NEW n \in [Servers -> 0..1]
    PROVE  Total(n) = Cardinality(Marked(n)) /\ Cardinality(Marked(n)) \in Nat
<1>1. DOMAIN n = Servers /\ \A x \in Servers : n[x] \in 0..1
  OBVIOUS
<1>2. Total(n) = SumFunctionOnSet(n, Servers)
  BY <1>1 DEF Total, SumFunction, FoldFunction, SumFunctionOnSet
<1>3. SumFunctionOnSet(n, Servers) = Cardinality(Ones(n, Servers))
  BY <1>1, ServersFinite, SumOnSet
<1>4. Ones(n, Servers) = Marked(n)
  BY DEF Ones, Marked
<1>5. IsFiniteSet(Marked(n))
  BY ServersFinite, FS_Subset DEF Marked
<1> QED BY <1>2, <1>3, <1>4, <1>5, FS_CardinalityType

(* Only these statements have a limit.                                     *)
LEMMA ListWays ==
    ASSUME NEW S, PlainStmt(S) \/ LocalStmt(S) \/ \E c, f \in 1..Len(S) : AskStmt(S, c, f),
           \E k \in 1..Len(S) : S[k].count \in {"row", "rows"}
    PROVE  \/ LocalStmt(S) /\ S[Len(S)].count = "rows"
           \/ \E c, f \in 1..Len(S) : AskStmt(S, c, f) /\ S[c].count = "row"
<1>1. PICK k \in 1..Len(S) : S[k].count \in {"row", "rows"}
  OBVIOUS
<1>2. ~PlainStmt(S)
  BY <1>1 DEF PlainStmt, Plain
<1>3. CASE LocalStmt(S)
  <2>1. Len(S) \in Nat /\ \A j \in 1..(Len(S) - 1) : S[j].count = "none"
    BY <1>3 DEF LocalStmt
  <2>2. k = Len(S)
    BY <1>1, <2>1
  <2> QED BY <1>1, <1>3, <2>2 DEF LocalStmt
<1>4. ASSUME NEW c \in 1..Len(S), NEW f \in 1..Len(S), AskStmt(S, c, f)
      PROVE  S[c].count = "row"
  BY <1>1, <1>4 DEF AskStmt
<1> QED BY <1>2, <1>3, <1>4

(* A list that is not full has all that was answered.                      *)
LEMMA ListsExact == ASSUME QueryInv, CountInv PROVE ListIsExact
<1> SUFFICES ASSUME NEW q \in Queries, Success(q), Limited(q)
             PROVE  LET n == task[q][Masters[q]].n IN
                    /\ Total(n) <= ListLimit
                    /\ Total(n) < ListLimit /\ AllAnswered(q) =>
                          \A p \in PoolSet : \E s \in p : n[s] = 1
  BY DEF ListIsExact
<1> DEFINE m == Masters[q]
           t == task[q][m]
           S == Nodes(q)
           tk == task[q]
<1>1. qry[q].name # "none" /\ m \in Servers
  BY SuccessSent
<1>2. Base(t) /\ CountOK(S, m, m, t, tk)
  BY <1>1, CountKnown
<1>3. Ok(t)
  BY DEF Success, Ok
<1>4. t.n \in [Servers -> 0..1] /\ t.limit \in Nat /\ ListLimit \in Nat
  BY <1>2, QueryAssumption DEF Base
<1>5. Total(t.n) = Cardinality(Marked(t.n)) /\ Cardinality(Marked(t.n)) \in Nat
  BY <1>4, ListLength
<1>6. \A p \in PoolSet : p # {} /\ p \subseteq Servers
  <2> TAKE p \in PoolSet
  <2>1. Cardinality(p) # 0
    BY QueryAssumption
  <2> QED BY <2>1, FS_EmptySet DEF Servers
<1>7. CASE LocalStmt(S) /\ S[Len(S)].count = "rows"
  <2>1. /\ Cardinality(Marked(t.n)) + t.limit = ListLimit
        /\ t.limit = 0 \/ Marked(t.n) = Servers
    BY <1>2, <1>3, <1>7 DEF CountOK, LocalOK
  <2>2. Total(t.n) <= ListLimit /\ (Total(t.n) < ListLimit => Marked(t.n) = Servers)
    BY <1>4, <1>5, <2>1
  <2>3. Marked(t.n) = Servers => \A p \in PoolSet : \E s \in p : t.n[s] = 1
    BY <1>6 DEF Marked
  <2> QED BY <2>2, <2>3
<1>8. ASSUME NEW c \in 1..Len(S), NEW f \in 1..Len(S), AskStmt(S, c, f), S[c].count = "row"
      PROVE  /\ Total(t.n) <= ListLimit
             /\ Total(t.n) < ListLimit /\ AllAnswered(q) =>
                   \A p \in PoolSet : \E s \in p : t.n[s] = 1
  <2>1. Complete(S, c, f, m, t, tk)
    BY <1>1, <1>8, AnswerComplete
  <2>2. /\ Cardinality(Marked(t.n)) + t.limit = ListLimit
        /\ t.limit = 0 \/ (Reached(S[f], m, t, tk) /\ Marked(t.n) = {m} \cup Oks(t))
    BY <1>8, <2>1 DEF Complete
  <2>3. /\ Total(t.n) <= ListLimit
        /\ Total(t.n) < ListLimit =>
              Reached(S[f], m, t, tk) /\ Marked(t.n) = {m} \cup Oks(t)
    BY <1>4, <1>5, <2>2
  <2>4. ASSUME Total(t.n) < ListLimit, AllAnswered(q), NEW p \in PoolSet
        PROVE  \E s \in p : t.n[s] = 1
    <3>1. /\ Reached(S[f], m, t, tk) /\ Marked(t.n) = {m} \cup Oks(t)
          /\ t.nulls = 0 /\ Oks(t) = DOMAIN t.prom
      BY <2>3, <2>4 DEF AllAnswered
    <3>2. S[f].fwd \in {"pools", "servers"}
      BY <1>8 DEF AskStmt
    <3>3. \E s \in p : s \in Marked(t.n)
      <4>1. CASE S[f].fwd = "pools"
        <5>1. PICK x \in p : Marked(t.n) \cap p = {x}
          BY <1>1, <3>1, <4>1, OnePerPool
        <5> QED BY <5>1
      <4>2. CASE S[f].fwd = "servers"
        <5>1. DOMAIN t.prom = Servers \ {m}
          BY <3>1, <4>2 DEF Reached
        <5> QED BY <1>1, <1>6, <3>1, <5>1
      <4> QED BY <3>2, <4>1, <4>2
    <3> QED BY <3>3 DEF Marked
  <2> QED BY <2>3, <2>4
<1>9. \/ LocalStmt(S) /\ S[Len(S)].count = "rows"
      \/ \E c, f \in 1..Len(S) : AskStmt(S, c, f) /\ S[c].count = "row"
  BY <1>1, KindOf, ListWays DEF QueryInv, Limited
<1> QED BY <1>7, <1>8, <1>9

(* A select needs the answer of every pool.                                *)
LEMMA SelectsComplete == ASSUME QueryInv, CountInv PROVE SelectIsComplete
<1> SUFFICES ASSUME NEW q \in Queries, Success(q), qry[q].name \in {"select", "select_head"},
                    NEW p \in PoolSet
             PROVE  \E s \in p : task[q][Masters[q]].n[s] = 1
  BY DEF SelectIsComplete
<1> DEFINE m == Masters[q]
           t == task[q][m]
           S == Nodes(q)
           tk == task[q]
<1>1. qry[q].name # "none" /\ m \in Servers
  BY SuccessSent
<1>2. AskedWay(S, "pools", "on_select_response")
  BY CountWays DEF Nodes
<1>3. PICK c \in 1..Len(S), f \in 1..Len(S) :
        AskStmt(S, c, f) /\ S[f].fwd = "pools" /\ S[f].cb = "on_select_response"
  BY <1>2 DEF AskedWay
<1>4. Complete(S, c, f, m, t, tk)
  BY <1>1, <1>3, AnswerComplete
<1>5. S[c].count # "row"
  BY <1>3 DEF AskStmt
<1>6. /\ Reached(S[f], m, t, tk) /\ Marked(t.n) = {m} \cup Oks(t)
      /\ t.nulls = 0 /\ Oks(t) = DOMAIN t.prom
  BY <1>3, <1>4, <1>5 DEF Complete
<1>7. PICK x \in p : Marked(t.n) \cap p = {x}
  BY <1>1, <1>3, <1>6, OnePerPool
<1> QED BY <1>7 DEF Marked

(* The answer to a count, list or select has the part of every pool or     *)
(* server once, whichever servers the master chose, however the answers,   *)
(* time-outs and lost connections came, and whoever stopped.               *)
THEOREM AnswersCompleteHolds == Spec => []AnswersComplete
<1>1. QueryInv /\ CountInv => AnswersComplete
  BY OnceCounted, CountsExact, ListsExact, SelectsComplete DEF AnswersComplete
<1> QED BY <1>1, CountInvHolds, PTL
=============================================================================
