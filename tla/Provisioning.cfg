SPECIFICATION Spec
CONSTANTS
    Codes <- MCCodes
    Containers <- MCContainers
    Scripts = {laptop}
    Catalogue <- MCCatalogue
    Slugs = {elite}
    Seeded = elite
    Emails = {e1, e2}
    Requests = {r1, r2}
    MaxNumber = 2
    older = older
    newer = newer
    laptop = laptop
    retired = retired
    kept = kept
    added = added
SYMMETRY Sym
INVARIANTS
    TypeOK
    OfficesAreWhole
    CatalogueIsServed
PROPERTY
    OfficesAreKept
