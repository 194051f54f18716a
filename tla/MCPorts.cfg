SPECIFICATION Spec
CONSTANTS
  a = a
  b = b
  x = x
  p1 = p1
  p2 = p2
  p3 = p3
  f1 = f1
  f2 = f2
  console = console
  terminal = terminal
  NULL = NULL
  closed = closed
  eof = eof
  stdout = f0
  Port = {console, p1, p2, p3}
  Path = {terminal, a, b}
  Char = {x, y}
  FilePointer = {f0, f1, f2}
  BUFSIZ = 1
  MaxLength <- MCMaxLength
  Existing <- MCExisting
SYMMETRY Interchangeable
INVARIANT FilesAreTheirOwn
PROPERTY StreamSpec
