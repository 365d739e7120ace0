------------------------------ MODULE UserVars ------------------------------
(***************************************************************************)
(* The user variables of an environment (env/uservars.c): records of       *)
(* varying size packed one behind the other into an area of                *)
(* ENV_MEM_USERVARS bytes, closed by a zero byte.  A program of the        *)
(* running system sets and deletes variables, has them collected at the    *)
(* end of an update (env/env_api.c), and closes the environment; the next  *)
(* one reads it back and validates it (env/env_api_fat.c).                 *)
(*                                                                         *)
(* Bytes are counted, not stored: a variable is its key, the length of its *)
(* data and a mark that tells contents of equal length apart.              *)
(***************************************************************************)
EXTENDS Integers, Sequences, FiniteSets, SequencesExt

CONSTANTS
    Keys,
    KeyLen,            \* strlen of each key
    DataLens, Marks,   \* lengths and contents of the data
    ENV_MEM_USERVARS,
    MaxGc,             \* bound on the garbage collection registry
    Tight              \* may a variable grow to the last byte of the area?

ASSUME AreaAssumption == ENV_MEM_USERVARS \in Nat \ {0}
ASSUME KeysAssumption == KeyLen \in [Keys -> Nat \ {0}] /\ Tight \in BOOLEAN
ASSUME DataAssumption == DataLens \subseteq Nat \ {0} /\ MaxGc \in Nat

VARIABLES
    area,        \* the variables, in the order in which they are packed
    gc,          \* gc_registry of the open handle
    finalized,   \* has ebg_env_finalize_update released the registry?
    call         \* the last call: its operation, arguments and return value

vars == <<area, gc, finalized, call>>

Value == [len : DataLens, mark : Marks]
Var   == [key : Keys, val : Value]

Set(k, v, r) == [op |-> "set", key |-> k, val |-> v, ret |-> r]
Delete(k)    == [op |-> "delete", key |-> k]
Other(o)     == [op |-> o]

Calls == [op : {"set"}, key : Keys, val : Value, ret : {"ok", "ENOMEM"}]
            \cup [op : {"delete"}, key : Keys]
            \cup [op : {"register", "finalize", "reopen"}]

Init ==
    /\ area = << >>
    /\ gc = << >>
    /\ finalized = FALSE
    /\ call = Other("reopen")

-----------------------------------------------------------------------------
(* The size of a record: key, terminator, uint32_t length, uint64_t type,  *)
(* data.                                                                   *)
PayloadSize(n)   == 4 + 8 + n
RecordSize(k, n) == KeyLen[k] + 1 + PayloadSize(n)

bgenv_user_free(a) ==
    LET left[n \in 0 .. Len(a)] ==
            IF n = 0 THEN ENV_MEM_USERVARS
            ELSE left[n - 1] - RecordSize(a[n].key, a[n].val.len)
    IN  left[Len(a)]

(* The walk of bgenv_validate_uservars: -1 once a record does not fit. *)
ValidateStep(left, v) ==
    LET behindKey == left - (KeyLen[v.key] + 1)
        payload   == PayloadSize(v.val.len)
    IN  IF left = -1 \/ KeyLen[v.key] + 1 + 4 >= left \/ payload >= behindKey
        THEN -1 ELSE behindKey - payload

bgenv_validate_uservars(a) ==
    LET left[n \in 0 .. Len(a)] ==
            IF n = 0 THEN ENV_MEM_USERVARS ELSE ValidateStep(left[n - 1], a[n])
    IN  left[Len(a)] # -1

(* Position of the first variable with this key, 0 if there is none. *)
bgenv_find_uservar(a, k) ==
    LET S == {p \in DOMAIN a : a[p].key = k}
    IN  IF S = {} THEN 0 ELSE CHOOSE p \in S : \A q \in S : p <= q

(* Faults: the record stays; everything behind it goes as well. *)
bgenv_del_uservar_nothing(a, p) == a
bgenv_del_uservar_tail(a, p) == SubSeq(a, 1, p - 1)

(* Close the gap. *)
bgenv_del_uservar(a, p) == RemoveAt(a, p)

Unset(a, k) ==
    IF bgenv_find_uservar(a, k) = 0 THEN a
    ELSE bgenv_del_uservar(a, bgenv_find_uservar(a, k))

(* Faults: no room is kept for the closing byte; too much is kept. *)
AllocFits_unclosed(a, size) == bgenv_user_free(a) >= size
AllocFits_wasteful(a, size) == bgenv_user_free(a) >= size + 12

(* bgenv_uservar_alloc leaves room for the zero byte behind the last       *)
(* variable.                                                               *)
AllocFits(a, size) == bgenv_user_free(a) >= size + 1

(* Fault: the room is not looked at. *)
ReallocFits_unchecked(a, size) == TRUE

(* bgenv_uservar_realloc, once the old record is deleted. *)
ReallocFits(a, size) == bgenv_user_free(a) >= size - 1

(* Only an area that still has its closing byte can be walked. *)
Walkable == bgenv_user_free(area) >= 1

-----------------------------------------------------------------------------
(***************************************************************************)
(* bgenv_set_uservar.  A record of the same size is overwritten in place,  *)
(* one of another size is deleted and appended; if it does not fit then,   *)
(* it is gone.  A caller that is not Tight never asks for a replacement    *)
(* that would fill the area but for the closing byte.                      *)
(***************************************************************************)
MayAsk(k, n) ==
    LET rest == bgenv_user_free(Unset(area, k))
    IN  Tight \/ RecordSize(k, n) < rest \/ RecordSize(k, n) > rest + 1

InsertNew(k, v) ==
    /\ bgenv_find_uservar(area, k) = 0
    /\ IF AllocFits(area, RecordSize(k, v.len))
       THEN area' = Append(area, [key |-> k, val |-> v]) /\ call' = Set(k, v, "ok")
       ELSE UNCHANGED area /\ call' = Set(k, v, "ENOMEM")

Overwrite(k, v) ==
    LET p == bgenv_find_uservar(area, k)
    IN  /\ p # 0
        /\ area[p].val.len = v.len
        /\ area' = ReplaceAt(area, p, [key |-> k, val |-> v])
        /\ call' = Set(k, v, "ok")

Resize(k, v) ==
    LET p    == bgenv_find_uservar(area, k)
        rest == bgenv_del_uservar(area, p)
    IN  /\ p # 0
        /\ area[p].val.len # v.len
        /\ MayAsk(k, v.len)
        /\ IF ReallocFits(rest, RecordSize(k, v.len))
           THEN area' = Append(rest, [key |-> k, val |-> v]) /\ call' = Set(k, v, "ok")
           ELSE area' = rest /\ call' = Set(k, v, "ENOMEM")

bgenv_set_uservar(k, v) ==
    /\ Walkable
    /\ InsertNew(k, v) \/ Overwrite(k, v) \/ Resize(k, v)
    /\ UNCHANGED <<gc, finalized>>

(* bgenv_set_uservar with USERVAR_TYPE_DELETED. *)
DeleteVar(k) ==
    /\ Walkable
    /\ area' = Unset(area, k)
    /\ call' = Delete(k)
    /\ UNCHANGED <<gc, finalized>>

ebg_env_register_gc_var(k) ==
    /\ ~finalized
    /\ Len(gc) < MaxGc
    /\ gc' = Append(gc, k)
    /\ call' = Other("register")
    /\ UNCHANGED <<area, finalized>>

(* Fault: only the first registered variable is deleted. *)
ebg_env_finalize_update_first ==
    /\ Walkable
    /\ ~finalized
    /\ area' = IF gc = << >> THEN area ELSE Unset(area, gc[1])
    /\ finalized' = TRUE
    /\ call' = Other("finalize")
    /\ UNCHANGED gc

(* The variables that are left after those registered have been deleted,   *)
(* one after the other.                                                    *)
Collected(a, registry) ==
    LET left[n \in 0 .. Len(registry)] ==
            IF n = 0 THEN a ELSE Unset(left[n - 1], registry[n])
    IN  left[Len(registry)]

(* ebg_env_finalize_update deletes the registered variables and frees the  *)
(* registry, which stays attached to the handle.                           *)
ebg_env_finalize_update ==
    /\ Walkable
    /\ ~finalized
    /\ area' = Collected(area, gc)
    /\ finalized' = TRUE
    /\ call' = Other("finalize")
    /\ UNCHANGED gc

(* ebg_env_close writes the area; the next process clears the environment  *)
(* if the area does not validate.                                          *)
Reopen ==
    /\ area' = IF bgenv_validate_uservars(area) THEN area ELSE << >>
    /\ gc' = << >>
    /\ finalized' = FALSE
    /\ call' = Other("reopen")

Next ==
    \/ \E k \in Keys, v \in Value : bgenv_set_uservar(k, v)
    \/ \E k \in Keys : DeleteVar(k)
    \/ \E k \in Keys : ebg_env_register_gc_var(k)
    \/ ebg_env_finalize_update
    \/ Reopen

Spec == Init /\ [][Next]_vars

-----------------------------------------------------------------------------
(* Every variable has a value of its type, and the area holds no more than *)
(* its bytes: the uint32_t bgenv_user_free counts down with never wraps.   *)
TypeOK ==
    /\ area \in Seq(Var)
    /\ gc \in Seq(Keys) /\ Len(gc) <= MaxGc
    /\ finalized \in BOOLEAN
    /\ call \in Calls
    /\ bgenv_user_free(area) \in 0 .. ENV_MEM_USERVARS

(* The values the area has for a key. *)
Holds(a, k) == {a[p].val : p \in {q \in DOMAIN a : a[q].key = k}}

(* A key never occurs twice: a lookup, which stops at the first match, and *)
(* a deletion, which removes only that, see all there is.                  *)
KeysUnique ==
    \A p, q \in DOMAIN area : area[p].key = area[q].key => p = q

(***************************************************************************)
(* A set, a replacement that has to move the record and a deletion touch   *)
(* no other variable; a set that reports success can be read back.         *)
(***************************************************************************)
SetIsLocal ==
    [][call'.op \in {"set", "delete"} =>
         /\ \A j \in Keys \ {call'.key} : Holds(area, j)' = Holds(area, j)
         /\ call'.op = "set" /\ call'.ret = "ok"
            => Holds(area, call.key)' = {call'.val}
      ]_vars

(***************************************************************************)
(* A set is refused only if the variables would then leave no byte free.   *)
(***************************************************************************)
RefusedOnlyIfFull ==
    [][call'.op = "set" /\ call'.ret = "ENOMEM"
         => RecordSize(call'.key, call'.val.len)
                >= bgenv_user_free(Unset(area, call'.key))]_vars

(***************************************************************************)
(* The end of an update removes the registered variables, and only those,  *)
(* however often one was registered and whether or not it exists.          *)
(***************************************************************************)
GcIsExact ==
    [][call'.op = "finalize" =>
         \A k \in Keys :
             Holds(area, k)' = IF \E p \in DOMAIN gc : gc[p] = k
                               THEN {} ELSE Holds(area, k)]_vars

(***************************************************************************)
(* What a process writes, the next one accepts: it never finds the area    *)
(* corrupt and throws the whole environment away.                          *)
(***************************************************************************)
ReopenKeeps == [][call'.op = "reopen" => area' = area]_vars

(***************************************************************************)
(* uservars.c:124: "To find the end of user variables, a 2nd 0 must be     *)
(* there after the last variable content, thus, we need one extra byte if  *)
(* appending a new variable."                                              *)
(***************************************************************************)
AreaTerminated == bgenv_user_free(area) >= 1
=============================================================================
