SPECIFICATION Spec
CONSTANTS
  e1 = e1
  e2 = e2
  e3 = e3
  Endpoints = {e1, e2, e3}
  Codes = {200, 302, 404}
  Times = {1, 4}
  MaxRequests = 5
SYMMETRY MCSymmetry
INVARIANTS MonitorTypeOK BooksBalance AverageMeasured BusiestFirst
