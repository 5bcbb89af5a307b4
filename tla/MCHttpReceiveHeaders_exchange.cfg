CONSTANTS
  Statuses = {100, 200, 302, 401, 404, 417, 500}
  HeaderLines <- MCHeaderLines
  AuthTypes <- MCAuthTypes
  AuthNone = AuthNone
  ValidUrls <- MCValidUrls
  EINVAL = 22
  RedirectError <- MCRedirectError
  MaxHeaders = 2
  MaxInterim = 1
  MaxRedirects = 2
  ULLWidth = 4
  SizeWidth = 4
SPECIFICATION Spec
INVARIANT ExchangeBudgetsFresh
