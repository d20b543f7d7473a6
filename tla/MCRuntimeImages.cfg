SPECIFICATION Spec
CONSTANTS
    php8 = php8
    php7 = php7
    i1 = i1
    l1 = l1
    l2 = l2
    Site = {a}
    Series = {php8, php7}
    Legacy = {php7}
    Image = {i1, l1, l2}
    SeriesOf <- BuiltFor
    Patched = {i1, l2}
    First <- AtFirst
    None = None
INVARIANTS TypeOK SelectedIsKept LegacyIsAccepted
PROPERTY UndoBringsBack
CHECK_DEADLOCK FALSE
CONSTRAINT Followed
VIEW View
