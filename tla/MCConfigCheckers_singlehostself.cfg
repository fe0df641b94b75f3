\* A lone virtual service whose hosts are the bookinfo wildcard and reviews.
CONSTANTS
    MMLists <- NoLists
    SHLists <- SelfLists
SPECIFICATION Spec
INVARIANT SingleHostExact
