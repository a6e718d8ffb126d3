---------------------------- MODULE TenantScope ----------------------------
(***************************************************************************)
(* The scoped Prisma client of apps/api/src/prisma/prisma.service.ts: what *)
(* its extension does to the arguments of a statement, and what Prisma     *)
(* then does with them to a table that has a tenantId.  The tenant comes   *)
(* from the context that TenantContextInterceptor has entered for the      *)
(* request, which JwtAuthGuard read from the row of the caller.            *)
(*                                                                         *)
(* These are operators on one statement and one table, and the theorems    *)
(* say for each statement that it stays inside the caller's office.        *)
(***************************************************************************)
CONSTANTS
    Tenants,    \* the offices
    Ids,        \* primary keys
    Values,     \* the other columns
    NoTenant    \* a request without a context; a column that is left out

Row  == [tenant: Tenants, value: Values]
Data == [tenant: Tenants \cup {NoTenant}, value: Values]

Tables == UNION {[ids -> Row] : ids \in SUBSET Ids}

\* where: the keys that the caller's condition admits, and the offices, if the
\* caller names any; data: what is to be written; create: rows to add, by key.
Args == [where: [ids: SUBSET Ids, tenants: SUBSET Tenants], data: Data,
         create: UNION {[ids -> Data] : ids \in SUBSET Ids}]

WHERE_SCOPED_OPS ==
    {"findUnique", "findUniqueOrThrow", "findFirst", "findFirstOrThrow", "findMany",
     "update", "updateMany", "delete", "deleteMany", "count", "aggregate", "groupBy"}

CreateOps == {"create", "createMany", "createManyAndReturn"}
Ops       == WHERE_SCOPED_OPS \cup CreateOps \cup {"upsert"}

-----------------------------------------------------------------------------
(* The extension *)

\* { ...where, tenantId }: whatever the caller said of the tenant is replaced.
Narrowed(where, t) == [where EXCEPT !.tenants = {t}]

\* { ...data, tenantId } for a row, or for each of several.
Stamped(rows, t) == [i \in DOMAIN rows |-> [rows[i] EXCEPT !.tenant = t]]

\* The arguments that reach Prisma.  The data of an update, and of the update half
\* of an upsert, is passed on as it is.
Rewritten(op, args, t) ==
    [where  |-> IF op \in WHERE_SCOPED_OPS \cup {"upsert"}
                THEN Narrowed(args.where, t) ELSE args.where,
     data   |-> args.data,
     create |-> IF op \in CreateOps \cup {"upsert"}
                THEN Stamped(args.create, t) ELSE args.create]

-----------------------------------------------------------------------------
(* Prisma *)

Matching(table, where) ==
    {i \in DOMAIN table : i \in where.ids /\ table[i].tenant \in where.tenants}

Written(row, data) ==
    [tenant |-> IF data.tenant = NoTenant THEN row.tenant ELSE data.tenant, value |-> data.value]

Updated(table, args) ==
    [i \in DOMAIN table |-> IF i \in Matching(table, args.where)
                            THEN Written(table[i], args.data) ELSE table[i]]

Deleted(table, args) == [i \in DOMAIN table \ Matching(table, args.where) |-> table[i]]

\* A key that is taken makes the statement fail; what is there stays.
Created(table, args) ==
    [i \in DOMAIN table \cup DOMAIN args.create |->
        IF i \in DOMAIN table THEN table[i] ELSE args.create[i]]

\* The table after a statement.
Executed(op, table, args) ==
    CASE op \in {"update", "updateMany"} -> Updated(table, args)
      [] op \in {"delete", "deleteMany"} -> Deleted(table, args)
      [] op \in CreateOps -> Created(table, args)
      [] op = "upsert" -> IF Matching(table, args.where) = {}
                          THEN Created(table, args) ELSE Updated(table, args)
      [] OTHER -> table

\* The rows it reads or writes, and may return.
Touched(op, table, args) ==
    IF op \in CreateOps THEN {} ELSE Matching(table, args.where)

-----------------------------------------------------------------------------
(* A statement on the scoped client, in the context of a request *)

Refused(t) == t = NoTenant

TableAfter(op, table, args, t) ==
    IF Refused(t) THEN table ELSE Executed(op, table, Rewritten(op, args, t))

RowsSeen(op, table, args, t) ==
    IF Refused(t) THEN {} ELSE Touched(op, table, Rewritten(op, args, t))

\* The keys of the rows of other offices.
Foreign(table, t) == {i \in DOMAIN table : table[i].tenant # t}
=============================================================================
