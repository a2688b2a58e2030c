SPECIFICATION MCSpec
CONSTANTS
    ada = ada  sam = sam  bot = bot  hub = hub  p = p  q = q  r = r  x = x
    NoOne = NoOne  Global = Global
    Accounts = {ada, sam}
    Operators = {sam}
    Supervisors = {sam}
    Agents = {bot}
    Communities = {hub}
    Grants = {p, q, r}
    Contents = {x, y}
    Comments = {k}
    Cases = {c1, c2}
    Reasons = {spam, abuse}
    Terms <- MCTerms
    Writers = {c1, c2}
    Revisions = {spam, abuse}
    Answers = {said}
    first = first  second = second
    Decisions = {first, second}
    Replaces <- MCReplaces
    Confirmations <- MCConfirmations
    noon = noon  later = later  chat = chat  mail = mail
    Realities = {found, missing}
    Nothing = Nothing
    Focuses = {"people"}
INVARIANT ActiveCommunityHasOwner
CHECK_DEADLOCK FALSE
