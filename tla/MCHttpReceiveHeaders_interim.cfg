CONSTANTS
  Statuses = {100, 103, 200}
  HeaderLines <- MCHeaderLines
  AuthTypes <- MCAuthTypes
  AuthNone = AuthNone
  ValidUrls <- MCValidUrls
  EINVAL = 22
  RedirectError <- MCRedirectError
  MaxHeaders = 2
  MaxInterim = 1
  MaxRedirects = 2
  ULLWidth = 4
  SizeWidth = 4
SPECIFICATION Spec
INVARIANT ReusableOnlyWhenConsumed
