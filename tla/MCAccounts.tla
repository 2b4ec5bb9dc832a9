------------------------------ MODULE MCAccounts -------------------------------
(* Two users, of whom root is the seeded super admin: the other is a second     *)
(* super admin and the attendant of one station, or does not exist yet.         *)
EXTENDS Accounts, TLC

User(password) == [status |-> "active", failed |-> 0, locked |-> FALSE,
                   password |-> password, mustChange |-> FALSE]
Session(s, u)  == [user |-> u, family |-> s, from |-> 0, revoked |-> Live,
                   expired |-> FALSE, opened |-> "p1"]
Assigned(role, station, life) ==
    [user |-> "amina", role |-> role, station |-> station, life |-> life,
     revoked |-> FALSE]
Attendant == [system |-> FALSE, status |-> "active",
              permissions |-> {"roles.manage", "devices.read", "devices.update",
                               "payments.refund", "audit_logs.read"}, synced |-> 0]

Extra(amina, attendant, granted, open, what) ==
    [users |-> [u \in {"amina"} |-> amina],
     roles |-> [r \in {"attendant"} |-> attendant],
     assignments |-> granted, sessions |-> open, families |-> what]
Colleague(what) ==
    Extra(User("p1"), Attendant,
          <<Assigned(SuperAdmin, None, "dated"), Assigned("attendant", "st1", "dated")>>,
          <<Session(1, "root"), Session(2, "amina")>>, what)

MCExtras ==
    {\* accounts are used and restricted,
     Colleague({"auth", "users", "passwords"}),
     \* their authority is given and taken,
     Colleague({"users", "roles"}),
     \* the first accounts are made
     Extra(None, None, <<>>, <<Session(1, "root")>>,
           {"auth", "users", "passwords", "roles"})}

MCPermissions ==
    {r.guard.code : r \in Routes} \union UNION {r.check.codes : r \in Routes}
        \union Deferred
MCPermissionSets == {{}, {"roles.manage"}}
MCSymmetry == Permutations(Workers)
================================================================================
