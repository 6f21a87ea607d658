---------------------------- MODULE MCContentSync ----------------------------
(***************************************************************************)
(* ContentSync with two releases' datasets and four databases a run may    *)
(* meet.                                                                   *)
(***************************************************************************)
EXTENDS ContentSync, TLC

CONSTANTS r1, r2, q1, seed

MCNames == {"go", "Go", "old", "Old", "cat", "c1", "c2", "blog", "tag", "u1", "job", "app", "app0",
            "p1", "post", "a1", "t1", "t2", "one", "new", "n1"}

Base(kind, key, second, category, targets) ==
  [kind |-> kind, key |-> key, second |-> second, body |-> "b1", public |-> TRUE,
   category |-> category, links |-> targets]

(* Two releases. *)
Older ==
  {Base("Skill", "old", "Old", None, {}), Base("Category", "blog", "c2", None, {}),
   Base("Project", "app", "p1", None, {"old"}), Base("Article", "post", "a1", "blog", {}),
   Base("SiteSettings", "one", "t1", None, {})}

Newer ==
  {Base("Skill", "go", "Go", None, {}), Base("Category", "cat", "c1", None, {}),
   Base("Tag", "tag", "u1", None, {}), Base("Experience", "job", "one", None, {"go"}),
   Base("Project", "app", "p1", None, {"go"}), Base("Article", "post", "a1", "cat", {"tag"}),
   Base("SiteSettings", "one", "t1", None, {})}

MCDataset == [r \in Runs |-> IF r = r1 THEN Older ELSE Newer]

Id(kind, key) == [by |-> seed, kind |-> kind, key |-> key]

Stored(kind, key, second, body, category) ==
  Id(kind, key) :> [kind |-> kind, key |-> key, second |-> second, body |-> body, public |-> TRUE,
                    category |-> category, own |-> "b2"]

OldSettings == Stored("SiteSettings", None, "t1", "b2", None)

MCSeeds ==
  { \* Nothing at all.
    [rows |-> <<>>, links |-> {}],
    \* Only what the base seed leaves.
    [rows |-> OldSettings, links |-> {}],
    \* An earlier release: a skill to hide, a category to replace, a project renamed.
    [rows |-> OldSettings @@ Stored("Skill", "old", "Old", "b1", None)
                @@ Stored("Category", "blog", "c2", "b1", None)
                @@ Stored("Article", "post", "a1", "b2", Id("Category", "blog"))
                @@ Stored("Project", "app0", "p1", "b1", None)
                @@ Stored("Experience", "job", "one", "b1", None)
                @@ Stored("Testimonial", None, None, "b1", None),
     links |-> {<<Id("Experience", "job"), Id("Skill", "old")>>}],
    \* A category renamed: its Arabic slug is not free in time.
    [rows |-> OldSettings @@ Stored("Category", "blog", "c1", "b1", None), links |-> {}] }

Sent(kind, key, second) ==
  [kind |-> kind, key |-> key, second |-> second, body |-> "b2", public |-> TRUE]

MCDrafts ==
  {Sent("Skill", "go", "Go"), Sent("Category", "new", "c1"), Sent("Category", "cat", None),
   Sent("Tag", "new", "u1"), Sent("Tag", None, "n1"), Sent("Experience", "job", "one"), Sent("Project", "app", "p1"),
   Sent("Article", "new", "n1"), Sent("SiteSettings", None, "t2"), Sent("Testimonial", None, None)}
=============================================================================
