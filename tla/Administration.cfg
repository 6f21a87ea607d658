SPECIFICATION Spec
CONSTANTS
  q1 = q1
  q2 = q2
  q3 = q3
  owner = owner
  editor = editor
  guest = guest
  fresh = fresh
  boss = boss
  ed = ed
  extra = extra
  tag = tag
  home = home
  en = en
  ar = ar
  unset = unset
  missing = missing
  Requests = {q1, q2, q3}
  Users = {boss, ed, extra}
  Roles = {owner, editor, guest, fresh}
  Owner = owner
  Containers = {tag}
  Pages = {home}
  Locales = {en, ar}
  Null = unset
  Omitted = missing
  Jobs <- MCJobs
  FirstUsers <- MCFirstUsers
  FirstGrants <- MCFirstGrants
SYMMETRY MCSymmetry
INVARIANTS
  TypeOK
  OneRequestsGrants
  SettingsCoherentAlone
  PagesAreWhole
PROPERTIES
  RevocationIsImmediate
CHECK_DEADLOCK FALSE
