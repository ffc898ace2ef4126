SPECIFICATION ClientSpec
CONSTANTS
  MaxReplies = 3
  maxPublicationBacklog = 2
INVARIANT NothingLost
INVARIANT NothingSentEarly
PROPERTY PublishesInOrder
