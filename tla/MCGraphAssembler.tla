--------------------------- MODULE MCGraphAssembler ---------------------------
(***************************************************************************)
(* Two requested namespaces whose maps share the reviews node: bookinfo's *)
(* map holds the ingress gateway (istio-system, not requested) calling    *)
(* productpage, productpage -> reviews and reviews -> ratings of travel   *)
(* over HTTP; travel's map holds reviews -> ratings over HTTP and TCP and *)
(* travels -> ratings over gRPC.  Besides, a node graph of reviews and a  *)
(* getReviews aggregate graph in bookinfo.  Only the security-policy       *)
(* appender is requested.                                                  *)
(***************************************************************************)
EXTENDS GraphAssembler

Gateway     == [id |-> "istio-ingressgateway", namespace |-> "istio-system"]
ProductPage == [id |-> "productpage", namespace |-> "bookinfo"]
Reviews     == [id |-> "reviews", namespace |-> "bookinfo"]
Ratings     == [id |-> "ratings", namespace |-> "travel"]
Travels     == [id |-> "travels", namespace |-> "travel"]
GetReviews  == [id |-> "getReviews", namespace |-> "bookinfo"]

E(s, d, p) == <<s.id, d.id, p>>

MC_Requested == {"bookinfo", "travel"}

MC_Accessible == {"bookinfo", "travel", "istio-system"}

MC_NsGraph ==
    [ns \in MC_Requested |->
       IF ns = "bookinfo"
         THEN [node |-> {Gateway, ProductPage, Reviews, Ratings},
               edge |-> {E(Gateway, ProductPage, "http"),
                         E(ProductPage, Reviews, "http"),
                         E(Reviews, Ratings, "http")}]
       ELSE [node |-> {Reviews, Ratings, Travels},
             edge |-> {E(Reviews, Ratings, "http"), E(Reviews, Ratings, "tcp"),
                       E(Travels, Ratings, "grpc")}]]

ReviewsNode   == [kind |-> "node", namespace |-> "bookinfo"]
ReviewsAggregate == [kind |-> "aggregate", namespace |-> "bookinfo"]

MC_NodeRequests == {ReviewsNode, ReviewsAggregate}

MC_NodeGraph ==
    [r \in MC_NodeRequests |->
       IF r = ReviewsNode
         THEN [node |-> {ProductPage, Reviews, Ratings},
               edge |-> {E(ProductPage, Reviews, "http"),
                         E(Reviews, Ratings, "http")}]
       ELSE [node |-> {ProductPage, GetReviews},
             edge |-> {E(ProductPage, GetReviews, "http")}]]

MC_AppenderOrder == <<"deadNode", "securityPolicy", "aggregateNode">>

MC_AppenderNames == {"securityPolicy"}
==============================================================================
