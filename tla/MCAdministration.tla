-------------------------- MODULE MCAdministration --------------------------
(***************************************************************************)
(* Administration with three requests that all work on the same few rows.  *)
(***************************************************************************)
EXTENDS Administration, TLC

CONSTANTS q1, q2, q3, owner, editor, guest, fresh, boss, ed, extra, tag, home, en, ar, unset, missing

Blank ==
  [route |-> "settings.update", role |-> missing, grants |-> missing, named |-> FALSE, user |-> missing,
   active |-> missing, enabled |-> missing, container |-> missing, page |-> missing,
   locales |-> <<>>]

Grant(r, gs) == [Blank EXCEPT !.route = "roles.update", !.role = r, !.grants = gs]
Rename(r, gs) == [Grant(r, gs) EXCEPT !.named = TRUE]
Move(u, r)   == [Blank EXCEPT !.route = "users.update", !.user = u, !.role = r]
Suspend(u)   == [Blank EXCEPT !.route = "users.update", !.user = u, !.active = FALSE]
Track(e, c)  == [Blank EXCEPT !.enabled = e, !.container = c]
Page(ls)     == [Blank EXCEPT !.route = "seo.update", !.page = home, !.locales = ls]

MCJobs ==
  { \* Roles and accounts.
    {Rename(editor, {"settings.update"}), Rename(editor, {"users.update", "roles.update"}),
     Grant(editor, {"seo.update"}), Grant(owner, {"seo.update"}), Move(ed, guest), Suspend(ed)},
    {Rename(editor, missing), Rename(editor, {}), Grant(editor, {"settings.update"})},
    {[Blank EXCEPT !.route = "roles.delete", !.role = guest],
     [Blank EXCEPT !.route = "roles.create", !.role = fresh, !.grants = {"settings.update"}],
     [Blank EXCEPT !.route = "users.create", !.user = extra, !.role = guest],
     Move(ed, fresh), Grant(guest, {"seo.update"})},
    \* The settings, and the pages, while an account changes.
    {Track(TRUE, missing), Track(missing, unset), Track(TRUE, tag), Track(missing, tag), Suspend(ed)},
    {Page(<<en, ar>>), Page(<<ar, en>>), Page(<<en>>), Move(ed, guest)} }

(* All properties are about safety. *)
MCSymmetry == Permutations(Requests)

MCFirstUsers ==
  [u \in {boss, ed} |-> [role |-> IF u = boss THEN owner ELSE editor, active |-> TRUE]]

MCFirstGrants ==
  {<<owner, "*">>, <<editor, "settings.update">>, <<editor, "roles.update">>, <<editor, "seo.update">>,
   <<guest, "users.update">>}
=============================================================================
