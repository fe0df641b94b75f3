\* A bookinfo wildcard destination rule and a reviews rule of another
\* namespace, in either order.
CONSTANTS
    MMLists <- TwoNamespaceLists
    SHLists <- NoLists
SPECIFICATION Spec
INVARIANT MultiMatchExact
