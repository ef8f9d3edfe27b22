SPECIFICATION Spec
CONSTANTS
  c1 = c1
  c2 = c2
  c3 = c3
  e1 = e1
  email = email
  phone = phone
  terms = terms
  news = news
  unlisted = unlisted
  None = None
  Calls <- MCCalls
  Edits <- MCEdits
  ClaimNames = {email, phone}
  RequiredClaims = {email}
  DocumentIDs = {terms, news, unlisted}
  Catalog = {terms, news}
  RequiredDocuments = {terms}
  RequestsOf <- MCRequestsOf
  Statuses = {"active", "rejected", "suspended"}
PROPERTY StatusIsPreserved
\* Every call returns in the end; the application may have nothing to edit.
CHECK_DEADLOCK FALSE
