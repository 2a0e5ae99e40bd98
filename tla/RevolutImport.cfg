SPECIFICATION Spec
CONSTANTS
    m1 = m1  m2 = m2  x1 = x1  x2 = x2
    c1 = c1  c2 = c2  s1 = s1  s2 = s2
    Manuals = {m1, m2}
    BankRows = {x1, x2}
    Receipts = {r1}
    Credits = {c1, c2}
    Sales = {s1, s2}
    Admins = {a1, a2}
    Imports = {i1, i2}
    Worth <- MCWorth
    Paid <- MCPaid
    Price <- MCPrice
    Kind <- MCKind
    Statements <- MCStatements
    MaxReceipts = 1
    NoSale = NoSale
    NoExpense = NoExpense
    NoMerge = NoMerge
    NoLine = NoLine
    Undecided = Undecided
    Book = Book
CONSTRAINT Apart
SYMMETRY Sym
INVARIANTS TypeOK PhotosCanBeShown LinkedFits
PROPERTIES PhotosSurviveMerge LinesAreKept MergeIsNeutral
