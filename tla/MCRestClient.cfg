\* Requests with two retries and two answers of 429; one image; two calls.
CONSTANTS
  Request = {r1, r2}
  Calls = {"get_server", "create_message", "delete_message", "edit_member"}
  Target = {t1}
  SharedBucket = SharedBucket
  RetryCount = 2
  RespectLimits = TRUE
  TicksPerMs = 2
  RetryDelay = 1
  Waits = {1}
  MaxRefusals = 2
  MaxClock = 3
  Image = {i1}
  Mimes = {"image/jpg", "image/png", "image/svg+xml", "text/html"}
  Command = {k1, k2}
  Operation = {"send_message", "edit_message", "pin_message", "get_member_count", "ban_user", "fetch_member"}
  firstRequest = r1
  firstCommand = k1
SPECIFICATION MCSpec
INVARIANTS OutcomesAreTrue KnownLimitIsObserved AnswersAreTrue
PROPERTIES ImplementsReportedCall AnswersCome
CHECK_DEADLOCK FALSE
