SPECIFICATION MCSpec
CONSTANTS
  Students = {s1}
  Classes = {c1, c2}
  Statuses = {"pending_payment"}
  MaxCart = 2
  MaxItem = 2
  Slots = {r1, r2}
  Ops = {"get", "add", "remove", "clear", "checkout", "enroll", "setEnrollment",
         "currency", "removeClass", "fail"}
  None = None
SYMMETRY Interchangeable
INVARIANTS TypeOK OneInvoicePerEnrollment AwaitedPaymentIsBilled
           AnsweredCheckoutIsEnrolled
PROPERTY KeepsBook
CHECK_DEADLOCK FALSE
