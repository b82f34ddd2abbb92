---------------------------- MODULE ModelProfiles ----------------------------
(***************************************************************************)
(* The model profiles (src/llm_studio/model_gateway): a table of profiles, *)
(* one of which may be the default, and the two built-in ones.             *)
(*                                                                         *)
(* A profile is its status, whether it is flagged as the default and the   *)
(* built-in its metadata names.  `renewed` has the profiles by their last  *)
(* update, the newest first.                                               *)
(***************************************************************************)
EXTENDS Integers, Sequences, FiniteSets, SequencesExt, FiniteSetsExt

CONSTANTS MaxProfiles     \* bound on the rows

VARIABLES profile, renewed

profileVars == <<profile, renewed>>

NoKey == "none"
FakeKey == "builtin.fake"
LocalKey == "builtin.local"
ProfileStatuses == {"enabled", "disabled", "archived"}
NoProfile == 0

ProfileInit == profile = << >> /\ renewed = << >>

-----------------------------------------------------------------------------
(* The repository, as functions of the rows.  `order` is the order of the  *)
(* last updates.                                                           *)

ProfileRow(key, status, default) == [key |-> key, status |-> status, default |-> default]

Unflagged(rows) == [p \in DOMAIN rows |-> [rows[p] EXCEPT !.default = FALSE]]

InsertProfile(rows, row) == Append(IF row.default THEN Unflagged(rows) ELSE rows, row)

MutUpdated(rows, p, row) == [rows EXCEPT ![p] = row]
Updated(rows, p, row) ==
  [(IF row.default THEN Unflagged(rows) ELSE rows) EXCEPT ![p] = row]

Flagged(rows, p) == [Unflagged(rows) EXCEPT ![p].default = TRUE]

(* The first of `order` that Is; a row that is written becomes the first.   *)
FirstThat(order, Is(_)) ==
  LET n == SelectInSeq(order, Is) IN IF n = 0 THEN NoProfile ELSE order[n]
Moved(order, p) == <<p>> \o RemoveFirst(order, p)

Default(rows, order) ==
  FirstThat(order, LAMBDA p : rows[p].default /\ rows[p].status = "enabled")

(* The profile that is not archived and claims to be a built-in one.       *)
Carrier(rows, order, key) ==
  FirstThat(order, LAMBDA p : rows[p].key = key /\ rows[p].status # "archived")

-----------------------------------------------------------------------------
(* ensure_builtin_profiles: the states after each of its commits.  A local *)
(* profile that is not enabled is refused as the default.                  *)

(* The order once `rows` were extended to `more`.                           *)
Order(order, rows, more) == [n \in 1..(Len(more) - Len(rows)) |-> Len(more) + 1 - n] \o order

WithBuiltins(rows, order) ==
  LET Missing(key) == IF Carrier(rows, order, key) # NoProfile THEN << >>
                      ELSE <<ProfileRow(key, "enabled", FALSE)>>
  IN  <<rows, rows \o Missing(FakeKey), rows \o Missing(FakeKey) \o Missing(LocalKey)>>

EnsureProfiles(rows, order) ==
  LET more == WithBuiltins(rows, order)[3]
      local == Carrier(more, Order(order, rows, more), LocalKey)
  IN  IF Default(more, order) = NoProfile /\ more[local].status = "enabled"
      THEN Append(WithBuiltins(rows, order), Flagged(more, local)) ELSE WithBuiltins(rows, order)

-----------------------------------------------------------------------------
(* The calls of the API, each in one step of the event loop                *)

Renewed(p) == renewed' = Moved(renewed, p)

CreateProfile(status, key, default) ==
  /\ Len(profile) < MaxProfiles
  /\ profile' = InsertProfile(profile, ProfileRow(key, status, default))
  /\ Renewed(Len(profile) + 1)

(* A default may be given up, disabled or given to a disabled profile.     *)
UpdateProfile(p, status, key, default) ==
  /\ profile' = Updated(profile, p, ProfileRow(key, status, default))
  /\ Renewed(p)

ArchiveProfile(p) == UpdateProfile(p, "archived", profile[p].key, FALSE)

SetDefaultProfile(p) ==
  /\ profile[p].status = "enabled"
  /\ profile' = Flagged(profile, p)
  /\ Renewed(p)

(* The end of the process may leave any of its commits the last one.       *)
EnsureBuiltinProfiles ==
  \E n \in DOMAIN EnsureProfiles(profile, renewed) :
    LET rows == EnsureProfiles(profile, renewed)[n]
        order == Order(renewed, profile, rows)
    IN  /\ Len(rows) =< MaxProfiles
        /\ profile' = rows
        /\ renewed' = IF n = 4 THEN Moved(order, Default(rows, order)) ELSE order

ProfileNext ==
  \/ \E status \in ProfileStatuses, key \in {NoKey, LocalKey}, default \in BOOLEAN :
       CreateProfile(status, key, default)
  \/ \E p \in DOMAIN profile :
       \/ \E status \in ProfileStatuses, key \in {NoKey, profile[p].key}, default \in BOOLEAN :
            UpdateProfile(p, status, key, default)
       \/ ArchiveProfile(p)
       \/ SetDefaultProfile(p)
  \/ EnsureBuiltinProfiles

ProfileSpec == ProfileInit /\ [][ProfileNext]_profileVars

-----------------------------------------------------------------------------
(* At most one profile is flagged as the default, whatever its status.     *)
(* Ensuring the built-in ones keeps an enabled default and gives one where *)
(* there is none, unless the local profile is disabled.                    *)
OneDefault ==
  LET commits == EnsureProfiles(profile, renewed)
      is == Default(profile, renewed)
      ensured == {p \in DOMAIN Last(commits) : Last(commits)[p].default}
      disabled == \E p \in DOMAIN profile : profile[p].key = LocalKey /\ profile[p].status = "disabled"
  IN  /\ \A n \in DOMAIN commits :
           Cardinality({p \in DOMAIN commits[n] : commits[n][p].default}) =< 1
      /\ is # NoProfile => ensured = {is}
      /\ is = NoProfile /\ ~disabled => \E p \in ensured : Last(commits)[p].status = "enabled"
=============================================================================
