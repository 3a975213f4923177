CONSTANTS
    None = None  r1 = r1  r2 = r2  Revs = {r1, r2}  Files = {"a", "b"}  Contents = {1, 2}
    MaxFaults = 1  MaxEdits = 1
    q1 = q1  q2 = q2  t1 = t1  t2 = t2  p1 = p1  p2 = p2
    Questions = {q1, q2}  Consumers = {t1, t2}  Providers = {p1, p2}
    LLM_CONCURRENCY = 2  MaxErrors = 1  MaxSaves = 2
    u1 = u1  u2 = u2  Uploads = {u1, u2}  Parts = {"a", "b"}  MaxCrashes = 1  MaxBreaks = 1  MaxActive = 2
    a1 = a1  a2 = a2  j1 = j1  v1 = v1  v2 = v2
    Inquiries = {a1, a2}  Jobs = {j1}  Vendors = {v1, v2}  PERMITS = 1  MaxChanges = 1
    e1 = e1  e2 = e2  x = x  Evidence = {e1, e2}  Foreign = x  MAX_ITEMS = 3  MAX_CHARS = 3  MaxLength = 4
    Docs = {"a", "b"}  MAX_PASSAGES = 2  MaxText = 6  MaxLines = 4  MaxBudget = 4
    URLs = {u1, u2}  Local = u1  m1 = m1  m2 = m2  Models = {m1, m2}  Users = {a1}
    Prompts = {"policy"}  MaxVersion = 3
    Accounts = {e1, e2, x}  MaxFailures = 2  MaxLogins = 1
SPECIFICATION Spec
CHECK_DEADLOCK FALSE
INVARIANTS KnowledgeHolds WorkHolds RulesHold
PROPERTIES StepsHold SentOnlyWhereApproved WorkEnds
