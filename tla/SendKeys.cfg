CONSTANTS
  Hosts = {h1, h2}
  Sends = {mail, noted, plain}
  Drafts = {draft}
  Provable = {mail, noted}
  Earlier = {noted}
  MaxLate = 1
  NoRequest = NoRequest
  NoHost = NoHost
SPECIFICATION FairSpec
INVARIANTS AtMostOnce TruthfulAnswers DraftFiledOnce
PROPERTIES KeySettles PromiseKept
