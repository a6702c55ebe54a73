CONSTANTS
  Users = {u1, u2}
  Guests = {u1}
  Requests = {r1, r2, r3}
  Limit = 2
  GuestLimit = 1
  MaxArrivals = 4
SYMMETRY Alike
SPECIFICATION Spec
INVARIANTS TypeOK OneOfEach QuotaKept
