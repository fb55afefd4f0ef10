-------------------------- MODULE SqlQueryBuilder --------------------------
(***************************************************************************)
(* The builder of select statements (sql_query_builder.h of Lesson_1):     *)
(* calls in any order, with single values (Task_81-1) or several at once   *)
(* (Task_81-2), and a query at any time between them.  A string is the     *)
(* sequence of its words and signs; a std::map is the sequence in which a  *)
(* loop passes over it.                                                    *)
(***************************************************************************)
EXTENDS Naturals, SequencesExt

CONSTANTS
  Columns,    \* name_column; some sequences of them are passed at once
  ColumnLists,
  Tables,     \* names of tables, the empty name << >> among them
  Pairs,      \* conditions: <<prizn, condition>>
  Before,     \* Before[p] = pairs whose prizn is less: the order of a map
  MaxCalls    \* bound: calls of one builder

ASSUME BuilderAssumption ==
  /\ ColumnLists \subseteq Seq(Columns)
  /\ << >> \in Tables /\ \A t \in Tables : t # << >> => t = <<t[1]>>

VARIABLES
  table_name, column, where_condition,
  built,      \* the last result of BuildQuery
  calls       \* history: [fn, arg] of each call

builder_vars == <<table_name, column, where_condition, built, calls>>

Thrown == <<"runtime_error">>
Comma == ","
Star == "*"
Terminator == ";"

(* Mutant: the conditions of another call replace those before. *)
Replaced(where, str_where) == str_where

Condition(pair) == <<pair[1], "=", pair[2]>>
Joined(where, str_where) == IF where = << >> THEN str_where ELSE where \o <<"AND">> \o str_where

Called(fn, arg) ==
  Len(calls) < MaxCalls /\ calls' = Append(calls, [fn |-> fn, arg |-> arg])

AddColumn(name_column) ==
  /\ Called("AddColumn", <<name_column>>)
  /\ column' = Append(column, name_column)
  /\ UNCHANGED <<table_name, where_condition, built>>

AddColumns(columns) ==
  /\ Called("AddColumns", columns)
  /\ column' = column \o columns
  /\ UNCHANGED <<table_name, where_condition, built>>

AddFrom(table) ==
  /\ Called("AddFrom", table)
  /\ table_name' = table
  /\ UNCHANGED <<column, where_condition, built>>

AddWhere(pair) ==
  /\ Called("AddWhere", <<pair>>)
  /\ where_condition' = Joined(where_condition, Condition(pair))
  /\ UNCHANGED <<table_name, column, built>>

AddWhereMap(kv) ==
  /\ Called("AddWhereMap", kv)
  /\ where_condition' =
       LET added[i \in 0..Len(kv)] ==
             IF i = 0 THEN where_condition ELSE Joined(added[i - 1], Condition(kv[i]))
       IN added[Len(kv)]
  /\ UNCHANGED <<table_name, column, built>>

(* A comma follows each column but the last. *)
ColumnList ==
  IF column = << >> THEN <<Star>>
  ELSE FlattenSeq([i \in DOMAIN column |->
                     IF i = Len(column) THEN <<column[i]>> ELSE <<column[i], Comma>>])

BuildQuery ==
  /\ Called("BuildQuery", << >>)
  /\ built' = IF table_name = << >> THEN Thrown
              ELSE <<"SELECT">> \o ColumnList \o <<"FROM">> \o table_name
                   \o (IF where_condition = << >> THEN << >> ELSE <<"WHERE">> \o where_condition)
                   \o <<Terminator>>
  /\ UNCHANGED <<table_name, column, where_condition>>

BuilderInit == table_name = << >> /\ column = << >> /\ where_condition = << >>
        /\ built = << >> /\ calls = << >>

(* The elements of a map are in the order of their keys, which differ.     *)
Maps == {kv \in SeqOf(Pairs, Cardinality(Pairs)) :
           \A i, j \in DOMAIN kv : i < j => kv[i] \in Before[kv[j]]}

BuilderNext ==
  \/ \E c \in Columns : AddColumn(c)
  \/ \E cs \in ColumnLists : AddColumns(cs)
  \/ \E t \in Tables : AddFrom(t)
  \/ \E p \in Pairs : AddWhere(p)
  \/ \E kv \in Maps : AddWhereMap(kv)
  \/ BuildQuery

BuilderSpec == BuilderInit /\ [][BuilderNext]_builder_vars

-----------------------------------------------------------------------------
(* The arguments of the calls of some functions, in the order of calls.    *)
Args(fns) ==
  FlattenSeq([i \in DOMAIN calls |-> IF calls[i].fn \in fns THEN calls[i].arg ELSE << >>])

(* The table of the last call that names one.                              *)
TableAsked ==
  LET froms == {i \in DOMAIN calls : calls[i].fn = "AddFrom"}
  IN IF froms = {} THEN << >> ELSE calls[Max(froms)].arg

(* The n-th element of a list, between separators, as a statement has it.  *)
IsList(text, items, Item(_), separator) ==
  /\ Len(items) > 0
  /\ LET width == Len(Item(items[1]))
     IN /\ Len(text) = Len(items) * (width + 1) - 1
        /\ \A i \in DOMAIN items :
             LET start == (i - 1) * (width + 1)
             IN /\ \A k \in 1..width : text[start + k] = Item(items[i])[k]
                /\ i > 1 => text[start] = separator

(* A query names the columns of all calls so far in their order, or *, the *)
(* table of the last call, and the conditions of all calls: a builder that *)
(* has built a query goes on where it was, and values passed at once count *)
(* as values passed one by one.  This is what the assertions of both tasks *)
(* compare for one sequence of calls each.                                 *)
QueryIsOfAllCalls ==
  (calls # << >> /\ Last(calls).fn = "BuildQuery") =>
    LET columns == Args({"AddColumn", "AddColumns"})
        wheres  == Args({"AddWhere", "AddWhereMap"})
        Single(x) == <<x>>
    IN IF TableAsked = << >> THEN built = Thrown
       ELSE \E f \in DOMAIN built :
              /\ built[1] = "SELECT" /\ built[f] = "FROM" /\ Last(built) = Terminator
              /\ \/ columns = << >> /\ SubSeq(built, 2, f - 1) = <<Star>>
                 \/ IsList(SubSeq(built, 2, f - 1), columns, Single, Comma)
              /\ built[f + 1] = TableAsked[1]
              /\ \/ wheres = << >> /\ Len(built) = f + 2
                 \/ /\ built[f + 2] = "WHERE"
                    /\ IsList(SubSeq(built, f + 3, Len(built) - 1), wheres, Condition, "AND")
=============================================================================
