------------------------------ MODULE Accounts ------------------------------
(***************************************************************************)
(* The part of sys_user that sessions depend on, and what the account      *)
(* writes (SysUserService.update and remove) do to it.                     *)
(***************************************************************************)
EXTENDS Naturals

CONSTANTS
    Users,       \* sys_user rows
    MaxVersion,  \* bound on sys_user.session_version
    Kinds        \* the account writes made, of AccountKinds

\* A password, a change of status, both at once, a removal. "enable" also stands
\* for the updates that end no session, "disable" for those with a password.
AccountKinds == {"reset", "disable", "enable", "reinstate", "delete"}

ASSUME AccountsAssumption ==
    /\ MaxVersion \in Nat \ {0}
    /\ Kinds \subseteq AccountKinds

VARIABLES
    sv,      \* sys_user.session_version
    status   \* sys_user.status, or "deleted" once soft-deleted

accounts == <<sv, status>>

Versions == 1..MaxVersion
Statuses == {"enabled", "disabled", "deleted"}

AccountsTypeOK ==
    /\ sv \in [Users -> Versions]
    /\ status \in [Users -> Statuses]

AccountsInit ==
    /\ sv = [u \in Users |-> 1]
    /\ status = [u \in Users |-> "enabled"]

\* A submitted password and a move from enabled to disabled raise the version;
\* these and a removal end every session.
Bumps(kind) == kind \in {"reset", "disable", "reinstate"}
Revokes(kind) == Bumps(kind) \/ kind = "delete"

\* A soft-deleted user is not found. MaxVersion bounds the model only.
Writable(u, kind) ==
    /\ status[u] # "deleted"
    /\ kind = "disable" => status[u] = "enabled"
    /\ kind \in {"enable", "reinstate"} => status[u] = "disabled"
    /\ Bumps(kind) => sv[u] < MaxVersion

ApplyWrite(u, kind) ==
    /\ sv' = IF Bumps(kind) THEN [sv EXCEPT ![u] = @ + 1] ELSE sv
    /\ status' = CASE kind = "reset"   -> status
                   [] kind = "disable" -> [status EXCEPT ![u] = "disabled"]
                   [] kind = "delete"  -> [status EXCEPT ![u] = "deleted"]
                   [] kind \in {"enable", "reinstate"} -> [status EXCEPT ![u] = "enabled"]

=============================================================================
